---- MODULE Spec2Model ----
(***************************************************************************)
(* Model of the workflow-base execution coordinator (WorkflowEngine) and   *)
(* its capability sandbox (SandboxManager, WorkerMessageDispatcher,        *)
(* worker.ts).                                                             *)
(*                                                                         *)
(* Strings built by the code are modelled as sequences of tokens, so that  *)
(* "the message contains X" and "the message is empty" stay checkable.     *)
(* Payloads are tagged values: an object is a set of <<key, value>> pairs. *)
(***************************************************************************)
EXTENDS Integers, Sequences, FiniteSets, TLC

VARIABLES
  runtime,            \* WorkflowEngine.runtime / SandboxManager.runtime: detectRuntime()
  workflows,          \* WorkflowEngine.workflows : name -> definition
  caller,             \* the caller of executeWorkflow whose call the engine is running
  parked,             \* the call of the other caller, suspended at an await
  late,               \* next(...) calls node logic will make after its promise has settled
  remaining,          \* executeWorkflow calls the caller has still to make
  runningExecutions,  \* WorkflowEngine.runningExecutions : execution id -> context
  phase,              \* position of the executeWorkflow call: idle / running / done
  outcome,            \* what the executeWorkflow promise settled with
  stack,              \* nested executeNode / executeSandboxedNode calls, innermost last
  ret,                \* completion of the innermost call, not yet consumed by its caller
  orphans,            \* branch trace still running after their fan-out returned
  trace,              \* history: invocations of node logic and detected cycles, in order
  workers,            \* SandboxManager.workers : workflow name -> worker
  wk,                 \* per worker: its message queues, listeners and running executions
  promises,           \* the promises made by executeInWorker, by activation
  apiHandlers,        \* WorkerMessageDispatcher.apiHandlers, NoManager while sandboxManager is null
  capInvoked,         \* history: registry functions invoked by the dispatcher
  server,             \* WorkflowServer: isRunning, its http server, and the serve/stop calls in flight
  triggers,           \* TriggerManager: scheduledJobs, the scheduler's jobs, and the events emitted
  emitted             \* history: the lifecycle notifications emitted for the call the engine is running

vars == <<runtime, workflows, caller, parked, late, remaining, runningExecutions, phase, outcome, stack, ret, orphans,
          trace, workers, wk, promises, apiHandlers, capInvoked, server, triggers, emitted>>
sandboxVars == <<workers, wk, promises, apiHandlers, capInvoked>>

----------------------------------------------------------------------------
(* Payloads *)

Obj(pairs) == [t |-> "obj", f |-> pairs]
EmptyObj == Obj({})
Prim == [t |-> "prim"]
Undefined == [t |-> "undef"]

IsObject(d) == d.t = "obj"
HasKey(d, k) == IsObject(d) /\ \E p \in d.f : p[1] = k
Get(d, k) == (CHOOSE p \in d.f : p[1] = k)[2]

\* mutant: on a collision the value already merged is kept
ObjectAssign_KeepOld(merged, input) ==
  Obj(merged.f \cup {q \in input.f : ~(\E p \in merged.f : p[1] = q[1])})
\* Object.assign(merged, input): the keys of input overwrite those of merged
ObjectAssign(merged, input) ==
  Obj({p \in merged.f : ~(\E q \in input.f : q[1] = p[1])} \cup input.f)

\* default parameter `output: any = {}` of the continuation
DefaultOutput(output) == IF output.t = "undef" THEN EmptyObj ELSE output

----------------------------------------------------------------------------
(* Capability registries (protectedFunctions): nested objects whose leaves  *)
(* are functions or other values.                                            *)

Fn == [k |-> "fn"]
Val == [k |-> "val"]
Dir(entries) == [k |-> "obj", f |-> entries]
Missing == [k |-> "undefined"]
NoManager == [k |-> "null"]

\* funcName.split('.') for the names the model uses
Split(name) ==
  CASE name = "db.query" -> <<"db", "query">>
    [] name = "storage.get" -> <<"storage", "get">>
    [] OTHER -> <<name>>

\* current?.[part]
Member(current, part) ==
  IF current.k = "obj" /\ \E e \in current.f : e[1] = part
    THEN (CHOOSE e \in current.f : e[1] = part)[2]
    ELSE Missing

\* the loop `for (const part of parts) { current = current?.[part]; if (!current) ... }`
RECURSIVE Walk(_, _)
Walk(current, parts) ==
  IF parts = <<>> THEN current
  ELSE IF Member(current, Head(parts)) = Missing THEN Missing
  ELSE Walk(Member(current, Head(parts)), Tail(parts))

\* mutant: a name is accepted as soon as it resolves to something
IsFunctionAvailable_Any(funcName, protectedFunctions) ==
  Walk(protectedFunctions, Split(funcName)) # Missing
\* SandboxManager.isFunctionAvailable
IsFunctionAvailable(funcName, protectedFunctions) ==
  Walk(protectedFunctions, Split(funcName)) = Fn

----------------------------------------------------------------------------
(* Messages *)

NoMessage == <<>>

CircularMessage(executionPath, nodeName) ==
  <<"Circular dependency detected">> \o executionPath \o <<nodeName>>
NodeNotFoundMessage(nodeName, workflowName) ==
  <<"Node not found in workflow", nodeName, workflowName>>
BranchNotFoundMessage(branchName) == <<"Node not found", branchName>>
WorkflowNotFoundMessage(workflowName) == <<"Workflow not found", workflowName>>

\* a thrown value: an Error object with a message, or something else
ErrorOf(message) == [isError |-> TRUE, message |-> message]
NonError == [isError |-> FALSE, message |-> NoMessage]

\* error instanceof Error ? error.message : fallback
MessageOf(error, fallback) == IF error.isError THEN error.message ELSE fallback

----------------------------------------------------------------------------
(* Node logic.  A node's function is opaque code; it is modelled as the set *)
(* of runs it can make: a sequence of steps, then a normal or abrupt end.   *)

NextStep(target, data) == [op |-> "next", target |-> target, data |-> data]
CapStep(method, awaited) == [op |-> "cap", method |-> method, awaited |-> awaited]

Returns == [thrown |-> FALSE]
Throws(error) == [thrown |-> TRUE, error |-> error]
\* logic that makes the calls of `after` once its promise has settled (from a
\* timer, or from work it did not await)
LateProg(steps, end, after) == [steps |-> steps, end |-> end, late |-> after]
Prog(steps, end) == LateProg(steps, end, <<>>)
NoProg == Prog(<<>>, Returns)

Node(name, sandbox, logic) == [name |-> name, sandbox |-> sandbox, logic |-> logic]

\* workflow.nodes.find(n => n.name === nodeName)
HasNode(workflow, nodeName) ==
  \E i \in 1..Len(workflow.nodes) : workflow.nodes[i].name = nodeName
FindNode(workflow, nodeName) ==
  LET i == CHOOSE j \in 1..Len(workflow.nodes) :
             /\ workflow.nodes[j].name = nodeName
             /\ \A k \in 1..(j - 1) : workflow.nodes[k].name # nodeName
  IN workflow.nodes[i]

\* node.sandbox && node.sandbox.length > 0
IsSandboxed(node) == Len(node.sandbox) > 0

----------------------------------------------------------------------------
(* Results *)

SuccessResult(value, executionPath) ==
  [success |-> TRUE, result |-> value, executionPath |-> executionPath]
\* mutant: the failure is built without its error
FailureResult_NoError(error, executionPath) ==
  [success |-> FALSE, executionPath |-> executionPath]
FailureResult(error, executionPath) ==
  [success |-> FALSE, error |-> error, executionPath |-> executionPath]
BareFailure(error) == [success |-> FALSE, error |-> error]

NoRet == [kind |-> "none"]
Return(result) == [kind |-> "return", result |-> result]
Throw(error) == [kind |-> "throw", error |-> error]

----------------------------------------------------------------------------
(* WorkflowEngine: the pure parts of executeNode and of the fan-out *)

InPath(executionPath, nodeName) ==
  \E i \in 1..Len(executionPath) : executionPath[i] = nodeName

\* mutant: the cycle check is left out
IsCircular_Never(executionPath, nodeName) == FALSE
\* executionPath.includes(nodeName)
IsCircular(executionPath, nodeName) == InPath(executionPath, nodeName)

\* [...executionPath, nodeName]
NewExecutionPath(executionPath, nodeName) == Append(executionPath, nodeName)

\* mutant: the message is taken as it is, without the default
ErrorSentinelMessage_Raw(input) ==
  IF HasKey(input, "message") THEN Get(input, "message") ELSE NoMessage
\* input?.message || 'Workflow ended with error'
ErrorSentinelMessage(input) ==
  IF HasKey(input, "message") /\ Get(input, "message") # NoMessage
    THEN Get(input, "message")
    ELSE <<"Workflow ended with error">>

\* executeNode, the branch taken when the target is not a node of the workflow
ResolveMissing(workflow, nodeName, input, executionPath) ==
  IF nodeName = "SUCCESS"
    THEN Return(SuccessResult(input, Append(executionPath, nodeName)))
  ELSE IF nodeName = "ERROR"
    THEN Return(FailureResult(ErrorSentinelMessage(input), Append(executionPath, nodeName)))
  ELSE Throw(ErrorOf(NodeNotFoundMessage(nodeName, workflow.name)))

\* mergeInputs
RECURSIVE MergeInto(_, _)
MergeInto(merged, inputs) ==
  IF inputs = <<>> THEN merged
  ELSE MergeInto(IF IsObject(Head(inputs)) THEN ObjectAssign(merged, Head(inputs)) ELSE merged,
                 Tail(inputs))
MergeInputs(inputs) == MergeInto(EmptyObj, inputs)

\* executeParallelNextCalls, step 2: group the intercepted calls by target,
\* in the insertion order of a Map
RECURSIVE GroupInto(_, _)
GroupInto(grouped, calls) ==
  IF calls = <<>> THEN grouped
  ELSE LET c == Head(calls)
           e == [fromBranch |-> c.fromBranch, data |-> c.data]
       IN IF \E i \in 1..Len(grouped) : grouped[i].targetNode = c.targetNode
            THEN GroupInto([i \in 1..Len(grouped) |->
                              IF grouped[i].targetNode = c.targetNode
                                THEN [grouped[i] EXCEPT !.calls = Append(@, e)]
                                ELSE grouped[i]],
                           Tail(calls))
            ELSE GroupInto(Append(grouped, [targetNode |-> c.targetNode, calls |-> <<e>>]),
                           Tail(calls))
GroupedSubsequentCalls(subsequentCallsFromBranches) ==
  GroupInto(<<>>, subsequentCallsFromBranches)

\* mutant: the target gets the payload of the first branch only
MergedData_First(calls) == calls[1].data
\* executeParallelNextCalls, step 3: the input handed to one grouped target
MergedData(calls) ==
  IF Len(calls) = 1 THEN calls[1].data
  ELSE MergeInputs([i \in 1..Len(calls) |-> calls[i].data])

\* mutant: without results, the value is taken to be absent
MergeParallelResults_NoValue(results, executionPath) ==
  IF Len(results) = 0 THEN [success |-> TRUE, executionPath |-> executionPath]
  ELSE results[1].result
\* mergeParallelResults
FirstFailed(results) ==
  CHOOSE i \in 1..Len(results) :
    /\ ~results[i].result.success
    /\ \A j \in 1..(i - 1) : results[j].result.success
MergeParallelResults(results, executionPath) ==
  IF \E i \in 1..Len(results) : ~results[i].result.success
    THEN results[FirstFailed(results)].result
  ELSE IF Len(results) > 0
    THEN LET firstResult == results[1].result
         IN IF "executionPath" \in DOMAIN firstResult
              THEN firstResult
              ELSE [success |-> firstResult.success, result |-> firstResult.result,
                    executionPath |-> executionPath]
  ELSE SuccessResult(EmptyObj, executionPath)

----------------------------------------------------------------------------
(* WorkflowEngine.createWorkflow.  A validation returns the message of the  *)
(* error it throws, NoMessage when it throws none.                          *)

Deno == [isDeno |-> TRUE, isNode |-> FALSE]
NodeJs == [isDeno |-> FALSE, isNode |-> TRUE]

\* { name, ...definition }
\* { name, ...definition }: the fields of the definition are kept as given
Named(name, definition) ==
  [k \in DOMAIN definition \cup {"name"} |->
     IF k = "name" THEN name ELSE definition[k]]

Least(S) == CHOOSE x \in S : \A y \in S : x <= y
Repeats(nodes) ==
  {i \in 1..Len(nodes) : \E j \in 1..(i - 1) : nodes[j].name = nodes[i].name}

\* validateWorkflow
ValidateWorkflow(workflow) ==
  IF Len(workflow.nodes) = 0
    THEN <<"must have at least one node", workflow.name>>
  ELSE IF ~HasNode(workflow, "start")
    THEN <<"must have a 'start' node", workflow.name>>
  ELSE IF Repeats(workflow.nodes) # {}
    THEN <<"has duplicate node name", workflow.name,
           workflow.nodes[Least(Repeats(workflow.nodes))].name>>
  ELSE NoMessage

\* nodes.some(node => node.sandbox && node.sandbox.length > 0)
HasSandboxNodes(nodes) == \E i \in 1..Len(nodes) : IsSandboxed(nodes[i])

\* runtime.ts validateSandboxSupport
ValidateSandboxSupport(rt) ==
  IF rt.isDeno THEN NoMessage ELSE <<"Sandbox functionality requires Deno runtime">>

\* SandboxManager.validateSandboxFunctions: the first name, in node order and
\* then list order, that is not available
Unavailable(nodes, protectedFunctions) ==
  {ij \in UNION {{<<i, j>> : j \in 1..Len(nodes[i].sandbox)} : i \in 1..Len(nodes)} :
     ~IsFunctionAvailable(nodes[ij[1]].sandbox[ij[2]], protectedFunctions)}
FirstUnavailable(nodes, protectedFunctions) ==
  CHOOSE ij \in Unavailable(nodes, protectedFunctions) :
    \A kl \in Unavailable(nodes, protectedFunctions) :
      ij[1] < kl[1] \/ (ij[1] = kl[1] /\ ij[2] <= kl[2])
ValidateSandboxFunctions(nodes, protectedFunctions) ==
  IF Unavailable(nodes, protectedFunctions) = {} THEN NoMessage
  ELSE LET ij == FirstUnavailable(nodes, protectedFunctions)
       IN <<"Function not available in protectedFunctions",
            nodes[ij[1]].sandbox[ij[2]], nodes[ij[1]].name>>

\* validateSandboxConfiguration, after the sandbox manager has been made
ValidateSandboxConfiguration(workflow, rt) ==
  IF ~HasSandboxNodes(workflow.nodes) THEN NoMessage
  ELSE IF ValidateSandboxSupport(rt) # NoMessage THEN ValidateSandboxSupport(rt)
  ELSE ValidateSandboxFunctions(workflow.nodes, workflow.protectedFunctions)

\* the engine: its workflows and the handlers of its sandbox manager
Engine(ws, handlers, result) ==
  [workflows |-> ws, apiHandlers |-> handlers, outcome |-> result]
NoWorkflows == [n \in {} |-> Missing]
NewEngine == Engine(NoWorkflows, NoManager, NoRet)

\* createWorkflow(name, definition) on an engine
CreateWorkflow(engine, rt, name, definition) ==
  LET workflow == Named(name, definition)
      \* `if (!this.sandboxManager) this.sandboxManager = new SandboxManager(...)`
      handlers == IF HasSandboxNodes(workflow.nodes) /\ engine.apiHandlers = NoManager
                    THEN workflow.protectedFunctions
                    ELSE engine.apiHandlers
  IN IF ValidateWorkflow(workflow) # NoMessage
       THEN Engine(engine.workflows, engine.apiHandlers,
                   Throw(ErrorOf(ValidateWorkflow(workflow))))
     ELSE IF ValidateSandboxConfiguration(workflow, rt) # NoMessage
       THEN Engine(engine.workflows, handlers,
                   Throw(ErrorOf(ValidateSandboxConfiguration(workflow, rt))))
     ELSE Engine([n \in DOMAIN engine.workflows \cup {name} |->
                    IF n = name THEN workflow ELSE engine.workflows[n]],
                 handlers, Return(workflow))

Call(name, definition) == [name |-> name, definition |-> definition]
RECURSIVE CreateAll(_, _, _)
CreateAll(engine, rt, calls) ==
  IF calls = <<>> THEN engine
  ELSE CreateAll(CreateWorkflow(engine, rt, Head(calls).name, Head(calls).definition),
                 rt, Tail(calls))

----------------------------------------------------------------------------
(* The call stack of one executeWorkflow call.  A frame is one executeNode  *)
(* call (which continues in executeSandboxedNode for a sandboxed node).     *)

Frame(workflowName, nodeName, input, executionPath) ==
  [wf |-> workflowName, node |-> nodeName, input |-> input,
   path |-> executionPath,      \* executionPath on entry
   npath |-> executionPath,     \* newExecutionPath once the node is found
   pc |-> "entry", sandboxed |-> FALSE, aid |-> 0,
   prog |-> NoProg, nextCalls |-> <<>>,
   branches |-> <<>>, firstRej |-> <<>>, subsequent |-> <<>>,
   grouped |-> <<>>, idx |-> 0, finalResults |-> <<>>]

Top == stack[Len(stack)]
Pop == SubSeq(stack, 1, Len(stack) - 1)
SetTop(f) == [stack EXCEPT ![Len(stack)] = f]

\* events of the history: the logic of a node is invoked (directly by
\* executeNode, directly as a first-hop branch, or inside the worker), a
\* sandboxed node is handed to the sandbox manager, a cycle is detected
Invoked(nodeName, input, via, executionPath) ==
  [ev |-> "invoke", node |-> nodeName, input |-> input, via |-> via,
   path |-> executionPath]
Delegated(nodeName, input, executionPath) ==
  [ev |-> "delegate", node |-> nodeName, input |-> input, path |-> executionPath]
CycleDetected(nodeName, executionPath) ==
  [ev |-> "circular", node |-> nodeName, path |-> executionPath]
\* a terminal sentinel is resolved
Terminal(nodeName, input, executionPath) ==
  [ev |-> "sentinel", node |-> nodeName, input |-> input, path |-> executionPath]
\* the loop over the grouped targets of a fan-out has ended, normally or by
\* an exception of executeNode: the Results collected and the Result returned
Merged(executionPath, finalResults, thrown, result) ==
  [ev |-> "merge", path |-> executionPath, results |-> finalResults,
   thrown |-> thrown, result |-> result]
\* the target is neither a node nor a sentinel
Unknown(nodeName, executionPath) ==
  [ev |-> "unknown", node |-> nodeName, path |-> executionPath]
\* the logic of a node has thrown (in the coordinator or in the worker)
Threw(nodeName, error, via) ==
  [ev |-> "throw", node |-> nodeName, error |-> error, via |-> via]
\* `await Promise.all(branchPromises)` of a fan-out has resumed, with the
\* calls intercepted so far
Joined(nodeName, executionPath, calls, rejected) ==
  [ev |-> "join", node |-> nodeName, path |-> executionPath, calls |-> calls,
   rejected |-> rejected]

\* the message of the catch block of executeNode / executeSandboxedNode
CatchFallback(f) ==
  IF f.sandboxed THEN <<"Unknown error in sandboxed node execution">>
  ELSE <<"Unknown error in node execution">>
CatchResult(f, error) == FailureResult(MessageOf(error, CatchFallback(f)), f.npath)

\* the executionPath of the result of an activation that made no next() call
ZeroCallPath(f) == IF f.sandboxed THEN Append(f.npath, f.node) ELSE f.npath

\* one branch of executeParallelNextCalls
Branch(workflow, call, prog) ==
  [name |-> call.targetNode, data |-> call.data,
   missing |-> ~HasNode(workflow, call.targetNode),
   prog |-> prog, status |-> "running"]
BranchOptions(workflow, call) ==
  IF HasNode(workflow, call.targetNode)
    THEN {Branch(workflow, call, p) : p \in FindNode(workflow, call.targetNode).logic}
    ELSE {Branch(workflow, call, NoProg)}
BranchChoices(workflow, calls) ==
  {bs \in [1..Len(calls) -> UNION {BranchOptions(workflow, calls[i]) : i \in 1..Len(calls)}] :
     \A i \in 1..Len(calls) : bs[i] \in BranchOptions(workflow, calls[i])}

RECURSIVE BranchActivations(_, _)
BranchActivations(bs, executionPath) ==
  IF bs = <<>> THEN <<>>
  ELSE (IF Head(bs).missing THEN <<>>
        ELSE <<Invoked(Head(bs).name, Head(bs).data, "branch", executionPath)>>)
       \o BranchActivations(Tail(bs), executionPath)

\* the lifecycle notifications of the engine (their payloads are left out)
NodeStart(nodeName) == [event |-> "nodeStart", node |-> nodeName]
NodeComplete(nodeName) == [event |-> "nodeComplete", node |-> nodeName]
NodeError(nodeName) == [event |-> "nodeError", node |-> nodeName]
\* with no next() call, executeSandboxedNode emits nodeComplete before it
\* returns and executeNode returns at once
ZeroCallEmits(f, nextCalls) ==
  IF Len(nextCalls) = 0 /\ f.sandboxed THEN <<NodeComplete(f.node)>> ELSE <<>>

\* What executeNode / executeSandboxedNode does once the recorded next()
\* calls of the activation are known.
ContinueWith(f, nextCalls) ==
  LET workflow == workflows[f.wf] IN
  IF Len(nextCalls) = 0 THEN
    /\ stack' = Pop
    /\ ret' = Return(SuccessResult(f.input, ZeroCallPath(f)))
    /\ UNCHANGED trace
  ELSE IF Len(nextCalls) = 1 THEN
    /\ stack' = Append(SetTop([f EXCEPT !.pc = "single", !.nextCalls = nextCalls]),
                       Frame(f.wf, nextCalls[1].targetNode, nextCalls[1].data, f.npath))
    /\ ret' = NoRet
    /\ UNCHANGED trace
  ELSE
    \E bs \in BranchChoices(workflow, nextCalls) :
      /\ stack' = SetTop([f EXCEPT !.pc = "branches", !.nextCalls = nextCalls,
                                   !.branches = bs])
      /\ ret' = NoRet
      /\ trace' = trace \o BranchActivations(bs, f.npath)

----------------------------------------------------------------------------
(* SandboxManager, WorkerMessageDispatcher and worker.ts *)

\* `of` is not part of the message: it remembers which activation sent it
ExecuteMessage(node, input, of) ==
  [type |-> "execute", of |-> of,
   payload |-> [nodeName |-> node.name, functionCode |-> node.logic,
                input |-> input, allowedFunctions |-> node.sandbox]]
ResultMessage(result) == [type |-> "result", result |-> result]
\* `allowed` is not part of the message: it remembers which activation sent it
RequestMessage(id, method, allowed) ==
  [type |-> "request", id |-> id, method |-> method, allowed |-> allowed]
ResponseMessage(hasId, id, hasResult, error) ==
  [type |-> "response", hasId |-> hasId, id |-> id, hasResult |-> hasResult, error |-> error]

\* a worker: its two channels, the listeners the manager has added to it, the
\* node logic running in it, and the state of its remote api (`id`, `pending`
\* and the promises `call` has returned, in the order of the calls)
NewWorker ==
  [inbox |-> <<>>, outbox |-> <<>>, listeners |-> <<>>, runs |-> <<>>,
   nextId |-> 0, pending |-> {}, calls |-> <<>>, terminated |-> 0]

Pending == [state |-> "pending"]
Resolved(value) == [state |-> "resolved", value |-> value]
Rejected(error) == [state |-> "rejected", error |-> error]

\* createRemoteApi, call: reqId = id++, pending.set(reqId, ...), sendFn(...)
RemoteCall(worker, method, allowed) ==
  [worker EXCEPT !.pending = @ \cup {worker.nextId},
                 !.nextId = @ + 1,
                 !.calls = Append(@, Pending),
                 !.outbox = Append(@, RequestMessage(worker.nextId, method, allowed))]

\* const { id: responseId, result, error } = e.data: the message has an id
HasId(data) == "id" \in DOMAIN data /\ ("hasId" \in DOMAIN data => data.hasId)

\* what the handler of createRemoteApi settles a call with
RemoteOutcome(data) ==
  IF "error" \in DOMAIN data /\ data.error # NoMessage
    THEN Rejected(ErrorOf(data.error))
    ELSE Resolved(IF "hasResult" \in DOMAIN data /\ data.hasResult
                    THEN Prim ELSE Undefined)

\* a handler that settles the calls in the order they were made
RemoteOnMessage_InOrder(worker, data) ==
  IF worker.pending # {}
    THEN [worker EXCEPT !.pending = @ \ {Least(worker.pending)},
                        !.calls[Least(worker.pending) + 1] = RemoteOutcome(data)]
    ELSE worker

\* createRemoteApi, the onmessage handler it installs: the pending call with
\* the id of the message is removed and settled, any other message is dropped
RemoteOnMessage(worker, data) ==
  IF HasId(data) /\ data.id \in worker.pending
    THEN [worker EXCEPT !.pending = @ \ {data.id},
                        !.calls[data.id + 1] = RemoteOutcome(data)]
    ELSE worker

TimeoutError == ErrorOf(<<"Sandbox execution timeout (10s)">>)

\* this.workers.get(workflowName) is defined
HasWorker(workflowName) == workflowName \in DOMAIN workers

\* a manager that makes a worker for every activation
GetOrCreateWorker_Fresh(workflowName) ==
  [workers |-> (workflowName :> Len(wk) + 1) @@ workers,
   wk |-> Append(wk, NewWorker), worker |-> Len(wk) + 1]

\* getOrCreateWorker: the worker of the workflow, created and recorded when
\* there is none; `worker` is the worker returned
GetOrCreateWorker(workflowName) ==
  IF HasWorker(workflowName)
    THEN [workers |-> workers, wk |-> wk, worker |-> workers[workflowName]]
    ELSE [workers |-> workers @@ (workflowName :> Len(wk) + 1),
          wk |-> Append(wk, NewWorker), worker |-> Len(wk) + 1]

\* executeInWorker: the listener of activation a is added to the worker and
\* the execute message is posted to it
ExecuteInWorker(ws, worker, node, input, a) ==
  [ws EXCEPT ![worker].listeners = Append(@, a),
             ![worker].inbox = Append(@, ExecuteMessage(node, input, a))]

\* the manager's registry and the workers made so far (`terminated` counts the
\* terminate() calls made on a worker)
Manager(ws, made) == [workers |-> ws, wk |-> made]
Without(ws, name) == [n \in DOMAIN ws \ {name} |-> ws[n]]
RegisteredWorkers(ws) == {ws[n] : n \in DOMAIN ws}

\* the workflow whose sandboxed nodes run in worker w
OwnerOf(w) == CHOOSE n \in DOMAIN workers : workers[n] = w

\* a removeWorker that terminates the worker and keeps its entry
RemoveWorker_KeepEntry(m, workflowName) ==
  IF workflowName \in DOMAIN m.workers
    THEN Manager(m.workers,
                 [m.wk EXCEPT ![m.workers[workflowName]].terminated = @ + 1])
    ELSE m

\* removeWorker: the worker of the name, if there is one, is terminated and
\* its entry deleted
RemoveWorker(m, workflowName) ==
  IF workflowName \in DOMAIN m.workers
    THEN Manager(Without(m.workers, workflowName),
                 [m.wk EXCEPT ![m.workers[workflowName]].terminated = @ + 1])
    ELSE m

\* a cleanup that terminates the workers and does not clear the registry
Cleanup_NoClear(m) ==
  Manager(m.workers,
          [w \in 1..Len(m.wk) |->
             IF w \in RegisteredWorkers(m.workers)
               THEN [m.wk[w] EXCEPT !.terminated = @ + 1] ELSE m.wk[w]])

\* cleanup: every worker of the registry is terminated, the registry cleared
Cleanup(m) ==
  Manager(<<>>,
          [w \in 1..Len(m.wk) |->
             IF w \in RegisteredWorkers(m.workers)
               THEN [m.wk[w] EXCEPT !.terminated = @ + 1] ELSE m.wk[w]])

\* worker.ts onmessage: is this a response, to be skipped?
IsResponseMessage(data) ==
  /\ data.type = "response"
  /\ data.hasId
  /\ (data.hasResult \/ data.error # NoMessage)

\* worker.ts executeNodeFunction: the result posted when the logic has ended
\* (`of` is not part of the result: it remembers whose logic produced it)
WorkerResult(run) ==
  IF run.prog.end.thrown
    THEN [success |-> FALSE,
          error |-> MessageOf(run.prog.end.error, <<"Unknown error in sandboxed execution">>),
          nodeName |-> run.nodeName, of |-> run.of]
    ELSE [success |-> TRUE, nextCalls |-> run.nextCalls, nodeName |-> run.nodeName,
          of |-> run.of]

\* WorkerMessageDispatcher.handleMessage: does the parent invoke the function?
DispatcherInvokes(message) ==
  message.type = "request" /\ Walk(apiHandlers, Split(message.method)) = Fn

\* WorkerMessageDispatcher.handleMessage: the response posted to the worker
DispatcherResponse(message) ==
  IF message.type # "request"
    THEN ResponseMessage(FALSE, 0, FALSE, <<"Cannot read properties of undefined">>)
  ELSE IF DispatcherInvokes(message)
    THEN ResponseMessage(TRUE, message.id, TRUE, NoMessage)
  ELSE IF Walk(apiHandlers, Split(message.method)) = Missing
    THEN ResponseMessage(TRUE, message.id, FALSE,
                         <<"Method not found in protected functions", message.method>>)
  ELSE ResponseMessage(TRUE, message.id, FALSE, <<"is not a function", message.method>>)

\* a manager whose catch drops the message of the rejection
ManagerResult_NoMessage(promise) ==
  IF promise.state = "resolved" THEN promise.value
  ELSE [success |-> FALSE, error |-> NoMessage]

\* SandboxManager.executeSandboxedNode: the settled promise of executeInWorker,
\* a rejection being caught and turned into a failure
ManagerResult(promise) ==
  IF promise.state = "resolved" THEN promise.value
  ELSE [success |-> FALSE,
        error |-> MessageOf(promise.error, <<"Unknown sandbox execution error">>)]

\* result.error || 'Sandbox execution failed'
SandboxFailureMessage(result) ==
  IF "error" \in DOMAIN result /\ result.error # NoMessage
    THEN result.error ELSE <<"Sandbox execution failed">>

----------------------------------------------------------------------------
(* Calls of executeWorkflow *)

\* executionId: `${workflowName}-${Date.now()}-${Math.random()}`, taken to be
\* different for every call: the caller and the number of the call
ExecutionId(c, callsLeft) == <<c, callsLeft>>
ExecutionContext(executionId, workflowName, input) ==
  [id |-> executionId, workflowName |-> workflowName, input |-> input]
\* a delete that empties the map
Delete_All(executions, executionId) == {}
\* runningExecutions.delete(executionId)
Delete(executions, executionId) == {e \in executions : e.id # executionId}

\* a call that starts on the path the other call has reached
StartPath_Shared ==
  IF parked.caller # 0 /\ parked.stack # <<>>
    THEN parked.stack[Len(parked.stack)].npath ELSE <<>>
\* executeNode(workflow, 'start', input, []): the path a call starts with
StartPath == <<>>

\* a next(...) call that node logic makes after nodeExecutionComplete was set:
\* the closure of nextFunction holds the workflow and newExecutionPath
LateCall(workflowName, nextNodeName, output, newExecutionPath) ==
  [wf |-> workflowName, target |-> nextNodeName, data |-> output,
   path |-> newExecutionPath]
\* the executeNode call made from inside nextFunction has no executeWorkflow
\* caller: it runs under the node logic that made the late call
Detached == 3

\* the locals of an executeWorkflow call and of the executeNode calls below it
Context(c, callsLeft, ph, result, frames, completion, history, notified) ==
  [caller |-> c, remaining |-> callsLeft, phase |-> ph, outcome |-> result,
   stack |-> frames, ret |-> completion, trace |-> history, emitted |-> notified]
\* there is no other caller
Nobody == [caller |-> 0]

----------------------------------------------------------------------------
(* Actions of the coordinator *)

\* executeWorkflow, up to the first executeNode call
BeginExecution(workflowName, input) ==
  /\ phase \in {"idle", "done"}
  /\ remaining > 0
  /\ remaining' = remaining - 1
  /\ IF workflowName \notin DOMAIN workflows
       THEN /\ phase' = "done"
            /\ outcome' = Return(BareFailure(WorkflowNotFoundMessage(workflowName)))
            /\ UNCHANGED <<stack, runningExecutions>>
       ELSE /\ phase' = "running"
            /\ runningExecutions' =
                 runningExecutions \cup {ExecutionContext(ExecutionId(caller, remaining),
                                                          workflowName, input)}
            /\ stack' = <<Frame(workflowName, "start", input, StartPath)>>
            /\ outcome' = NoRet
  \* the history is that of the latest call
  /\ trace' = <<>>
  /\ emitted' = <<>>
  /\ UNCHANGED <<server, runtime, workflows, caller, parked, late, ret, orphans, sandboxVars>>

\* executeWorkflow called by the application
ExecuteWorkflow(workflowName, input) ==
  /\ BeginExecution(workflowName, input)
  /\ UNCHANGED triggers

\* executeNode, from its entry to the invocation of the node's logic
EnterNode ==
  /\ phase = "running" /\ stack # <<>> /\ Top.pc = "entry"
  /\ LET f == Top
         workflow == workflows[f.wf]
     IN IF IsCircular(f.path, f.node) THEN
          /\ stack' = Pop
          /\ ret' = Throw(ErrorOf(CircularMessage(f.path, f.node)))
          /\ trace' = Append(trace, CycleDetected(f.node, f.path))
          /\ UNCHANGED <<workers, wk, promises>>
        ELSE IF ~HasNode(workflow, f.node) THEN
          /\ stack' = Pop
          /\ ret' = ResolveMissing(workflow, f.node, f.input, f.path)
          /\ trace' = IF f.node \in {"SUCCESS", "ERROR"}
                        THEN Append(trace, Terminal(f.node, f.input, f.path))
                        ELSE Append(trace, Unknown(f.node, f.path))
          /\ UNCHANGED <<workers, wk, promises>>
        ELSE LET node == FindNode(workflow, f.node)
                 g == [f EXCEPT !.npath = NewExecutionPath(f.path, f.node)]
             IN IF IsSandboxed(node) THEN
                  \* executeSandboxedNode -> SandboxManager.executeSandboxedNode
                  \* -> getOrCreateWorker -> executeInWorker
                  LET got == GetOrCreateWorker(f.wf)
                      a == Len(promises) + 1
                  IN /\ workers' = got.workers
                     /\ wk' = ExecuteInWorker(got.wk, got.worker, node, f.input, a)
                     /\ promises' = Append(promises, Pending)
                     /\ stack' = SetTop([g EXCEPT !.pc = "sandbox", !.sandboxed = TRUE,
                                                  !.aid = Len(promises) + 1])
                     /\ ret' = NoRet
                     /\ trace' = Append(trace, Delegated(f.node, f.input, f.path))
                ELSE
                  \E p \in node.logic :
                    /\ stack' = SetTop([g EXCEPT !.pc = "logic", !.prog = p])
                    /\ ret' = NoRet
                    /\ trace' = Append(trace, Invoked(f.node, f.input, "resolve", f.path))
                    /\ UNCHANGED <<workers, wk, promises>>
  \* this.emit('nodeStart', ...) once the node has been found
  /\ emitted' = IF ~IsCircular(Top.path, Top.node) /\ HasNode(workflows[Top.wf], Top.node)
                  THEN Append(emitted, NodeStart(Top.node))
                  ELSE emitted
  /\ UNCHANGED <<server, triggers, runtime, workflows, caller, parked, late, remaining, runningExecutions, phase, outcome, orphans,
                 apiHandlers, capInvoked>>

\* the node's logic calls next(target, data): nextFunction records the call
LogicStep ==
  /\ phase = "running" /\ stack # <<>> /\ Top.pc = "logic"
  /\ Top.prog.steps # <<>>
  /\ LET f == Top
         st == Head(f.prog.steps)
         g == [f EXCEPT !.prog.steps = Tail(@)]
     IN stack' = SetTop(IF st.op = "next"
                          THEN [g EXCEPT !.nextCalls =
                                  Append(@, [targetNode |-> st.target,
                                             data |-> DefaultOutput(st.data)])]
                          ELSE g)
  /\ UNCHANGED <<emitted, server, triggers, runtime, workflows, caller, parked, late, remaining, runningExecutions, phase, outcome, ret, orphans,
                 trace, sandboxVars>>

\* `await node.function(input, nextFunction)` settles
LogicEnd ==
  /\ phase = "running" /\ stack # <<>> /\ Top.pc = "logic"
  /\ Top.prog.steps = <<>>
  /\ LET f == Top
     IN IF f.prog.end.thrown
          THEN /\ stack' = Pop
               /\ ret' = Return(CatchResult(f, f.prog.end.error))
               /\ trace' = Append(trace, Threw(f.node, f.prog.end.error, "resolve"))
          ELSE ContinueWith(f, f.nextCalls)
  \* nodeExecutionComplete = true only when the logic has not thrown: the
  \* calls it makes from now on are not collected
  /\ late' = IF Top.prog.end.thrown THEN late
             ELSE late \o [k \in 1..Len(Top.prog.late) |->
                             LateCall(Top.wf, Top.prog.late[k].target,
                                      DefaultOutput(Top.prog.late[k].data), Top.npath)]
  /\ emitted' = IF Top.prog.end.thrown THEN Append(emitted, NodeError(Top.node))
                ELSE emitted \o ZeroCallEmits(Top, Top.nextCalls)
  /\ UNCHANGED <<server, triggers, runtime, workflows, caller, parked, remaining, runningExecutions, phase, outcome, orphans, sandboxVars>>

\* a first-hop branch calls next(target, data): interceptingNextFunction
\* records the call in subsequentCallsFromBranches
BranchStep(i) ==
  /\ phase = "running" /\ stack # <<>> /\ Top.pc = "branches"
  /\ i \in 1..Len(Top.branches)
  /\ Top.branches[i].status = "running"
  /\ Top.branches[i].prog.steps # <<>>
  /\ LET f == Top
         b == f.branches[i]
         st == Head(b.prog.steps)
         g == [f EXCEPT !.branches[i].prog.steps = Tail(@)]
     IN stack' = SetTop(IF st.op = "next"
                          THEN [g EXCEPT !.subsequent =
                                  Append(@, [fromBranch |-> b.name,
                                             targetNode |-> st.target,
                                             data |-> DefaultOutput(st.data)])]
                          ELSE g)
  /\ UNCHANGED <<emitted, server, triggers, runtime, workflows, caller, parked, late, remaining, runningExecutions, phase, outcome, ret, orphans,
                 trace, sandboxVars>>

\* the promise of a first-hop branch settles
BranchOutcome_Logic(b) == b.prog.end
BranchOutcome(b) ==
  IF b.missing THEN Throws(ErrorOf(BranchNotFoundMessage(b.name))) ELSE b.prog.end
\* a branch whose name is no node throws before its first await: its promise
\* is rejected while nextCalls.map runs, so Promise.all hears of it before it
\* hears of any branch listed after it
RejectedInMap(branches, i) ==
  \A j \in 1..(i - 1) : branches[j].missing => branches[j].status # "running"
BranchEnd(i) ==
  /\ phase = "running" /\ stack # <<>> /\ Top.pc = "branches"
  /\ i \in 1..Len(Top.branches)
  /\ Top.branches[i].status = "running"
  /\ Top.branches[i].prog.steps = <<>>
  /\ RejectedInMap(Top.branches, i)
  /\ LET f == Top
         end == BranchOutcome(f.branches[i])
     IN stack' = SetTop(IF end.thrown
                          THEN [f EXCEPT !.branches[i].status = "thrown",
                                         !.firstRej = IF @ = <<>> THEN <<end.error>> ELSE @]
                          ELSE [f EXCEPT !.branches[i].status = "done"])
  /\ UNCHANGED <<emitted, server, triggers, runtime, workflows, caller, parked, late, remaining, runningExecutions, phase, outcome, ret, orphans,
                 trace, sandboxVars>>

\* Promise.all(branchPromises): fulfilled when every branch is, rejected as
\* soon as one branch is
AllSettled(branches) == \A i \in 1..Len(branches) : branches[i].status # "running"
PromiseAllSettled(f) == f.firstRej # <<>> \/ AllSettled(f.branches)

StillRunning(branches) == SelectSeq(branches, LAMBDA b : b.status = "running")

\* `await Promise.all(branchPromises)` in executeParallelNextCalls resumes
BranchesJoin ==
  /\ phase = "running" /\ stack # <<>> /\ Top.pc = "branches"
  /\ PromiseAllSettled(Top)
  /\ LET f == Top
     IN IF f.firstRej # <<>>
          THEN /\ stack' = Pop
               /\ ret' = Return(CatchResult(f, f.firstRej[1]))
               /\ orphans' = orphans \o StillRunning(f.branches)
          ELSE /\ stack' = SetTop([f EXCEPT !.pc = "targets", !.idx = 1,
                                            !.grouped = GroupedSubsequentCalls(f.subsequent)])
               /\ ret' = NoRet
               /\ UNCHANGED orphans
  /\ trace' = Append(trace, Joined(Top.node, Top.npath, Top.subsequent, Top.firstRej # <<>>))
  \* a rejection of Promise.all is caught by the catch of the fan-out node
  /\ emitted' = IF Top.firstRej # <<>> THEN Append(emitted, NodeError(Top.node)) ELSE emitted
  /\ UNCHANGED <<server, triggers, runtime, workflows, caller, parked, late, remaining, runningExecutions, phase, outcome, sandboxVars>>

\* executeParallelNextCalls, step 3: the loop over the grouped targets, then
\* mergeParallelResults
TargetStep ==
  /\ phase = "running" /\ stack # <<>> /\ Top.pc = "targets"
  /\ LET f == Top
     IN IF f.idx <= Len(f.grouped)
          THEN LET t == f.grouped[f.idx]
               IN /\ stack' = Append(SetTop([f EXCEPT !.pc = "awaitTarget"]),
                                     Frame(f.wf, t.targetNode, MergedData(t.calls), f.npath))
                  /\ ret' = NoRet
                  /\ UNCHANGED trace
          ELSE /\ stack' = Pop
               /\ ret' = Return(MergeParallelResults(f.finalResults, f.npath))
               /\ trace' = Append(trace,
                                  Merged(f.npath, f.finalResults, FALSE,
                                         MergeParallelResults(f.finalResults, f.npath)))
  /\ emitted' = IF Top.idx <= Len(Top.grouped) THEN emitted
                ELSE Append(emitted, NodeComplete(Top.node))
  /\ UNCHANGED <<server, triggers, runtime, workflows, caller, parked, late, remaining, runningExecutions, phase, outcome, orphans, sandboxVars>>

\* an awaited executeNode call has completed: its caller resumes
AwaitReturn ==
  /\ phase = "running" /\ stack # <<>> /\ ret.kind # "none"
  /\ Top.pc \in {"single", "awaitTarget"}
  /\ LET f == Top
     IN IF ret.kind = "throw"
          THEN /\ stack' = Pop
               /\ ret' = Return(CatchResult(f, ret.error))
               /\ trace' = IF f.pc = "awaitTarget"
                             THEN Append(trace, Merged(f.npath, f.finalResults, TRUE,
                                                       CatchResult(f, ret.error)))
                             ELSE trace
        ELSE IF f.pc = "single"
          THEN /\ stack' = Pop
               /\ ret' = ret
               /\ UNCHANGED trace
        ELSE /\ stack' = SetTop([f EXCEPT !.pc = "targets", !.idx = @ + 1,
                                          !.finalResults =
                                            Append(@, [targetNode |-> f.grouped[f.idx].targetNode,
                                                       result |-> ret.result])])
             /\ ret' = NoRet
             /\ UNCHANGED trace
  /\ emitted' = IF ret.kind = "throw" THEN Append(emitted, NodeError(Top.node))
                ELSE IF Top.pc = "single" THEN Append(emitted, NodeComplete(Top.node))
                ELSE emitted
  /\ UNCHANGED <<server, triggers, runtime, workflows, caller, parked, late, remaining, runningExecutions, phase, outcome, orphans, sandboxVars>>

\* executeWorkflow: the awaited executeNode('start') has completed
Finish ==
  /\ caller # Detached
  /\ phase = "running" /\ stack = <<>> /\ ret.kind # "none"
  /\ phase' = "done"
  /\ runningExecutions' = Delete(runningExecutions, ExecutionId(caller, remaining + 1))
  /\ outcome' = IF ret.kind = "return" THEN ret
                ELSE Return(BareFailure(MessageOf(ret.error, <<"Unknown error occurred">>)))
  /\ ret' = NoRet
  /\ UNCHANGED <<emitted, server, triggers, runtime, workflows, caller, parked, late, remaining, stack, orphans, trace, sandboxVars>>

\* a branch that its fan-out no longer awaits goes on running
OrphanStep(i) ==
  /\ i \in 1..Len(orphans)
  /\ orphans' = IF orphans[i].prog.steps # <<>>
                  THEN [orphans EXCEPT ![i].prog.steps = Tail(@)]
                  ELSE SubSeq(orphans, 1, i - 1) \o SubSeq(orphans, i + 1, Len(orphans))
  /\ UNCHANGED <<emitted, server, triggers, runtime, workflows, caller, parked, late, remaining, runningExecutions, phase, outcome, stack, ret,
                 trace, sandboxVars>>

----------------------------------------------------------------------------
(* Actions of the sandbox *)

Run(payload, prog, of) ==
  [of |-> of, nodeName |-> payload.nodeName, input |-> payload.input,
   allowed |-> payload.allowedFunctions, prog |-> prog,
   nextCalls |-> <<>>, blocked |-> FALSE]

RemoveAt(seq, i) == SubSeq(seq, 1, i - 1) \o SubSeq(seq, i + 1, Len(seq))

\* worker.ts onmessage: the worker takes the next message of its parent
WorkerReceive(w) ==
  /\ w \in 1..Len(wk)
  /\ wk[w].inbox # <<>>
  /\ LET data == Head(wk[w].inbox)
     IN IF ~IsResponseMessage(data) /\ data.type = "execute"
          THEN \E p \in data.payload.functionCode :
                 /\ wk' = [wk EXCEPT ![w].inbox = Tail(@),
                                     ![w].runs = Append(@, Run(data.payload, p, data.of))]
                 /\ trace' = Append(trace,
                                    Invoked(data.payload.nodeName,
                                            data.payload.input, "sandbox", <<>>))
          ELSE /\ wk' = [wk EXCEPT ![w].inbox = Tail(@)]
               /\ UNCHANGED trace
  /\ UNCHANGED <<emitted, server, triggers, runtime, workflows, caller, parked, late, remaining, runningExecutions, phase, outcome, stack, ret, orphans,
                 workers, promises, apiHandlers, capInvoked>>

\* the sandboxed logic calls next(...) or a capability of the remote api
WorkerStep(w, r) ==
  /\ w \in 1..Len(wk)
  /\ r \in 1..Len(wk[w].runs)
  /\ ~wk[w].runs[r].blocked
  /\ wk[w].runs[r].prog.steps # <<>>
  /\ LET run == wk[w].runs[r]
         st == Head(run.prog.steps)
         rest == [run EXCEPT !.prog.steps = Tail(@)]
     IN wk' = IF st.op = "next"
                THEN [wk EXCEPT ![w].runs[r] =
                        [rest EXCEPT !.nextCalls =
                           Append(@, [targetNode |-> st.target,
                                      data |-> DefaultOutput(st.data)])]]
                ELSE [wk EXCEPT ![w] =
                        [RemoteCall(wk[w], st.method, run.allowed) EXCEPT
                           !.runs[r] = [rest EXCEPT !.blocked = st.awaited]]]
  /\ UNCHANGED <<emitted, server, triggers, runtime, workflows, caller, parked, late, remaining, runningExecutions, phase, outcome, stack, ret, orphans,
                 trace, workers, promises, apiHandlers, capInvoked>>

\* executeNodeFunction returns: the worker posts the result
WorkerEnd(w, r) ==
  /\ w \in 1..Len(wk)
  /\ r \in 1..Len(wk[w].runs)
  /\ ~wk[w].runs[r].blocked
  /\ wk[w].runs[r].prog.steps = <<>>
  /\ wk' = [wk EXCEPT ![w].runs = RemoveAt(@, r),
                      ![w].outbox = Append(@, ResultMessage(WorkerResult(wk[w].runs[r])))]
  /\ trace' = IF wk[w].runs[r].prog.end.thrown
                THEN Append(trace, Threw(wk[w].runs[r].nodeName,
                                         wk[w].runs[r].prog.end.error, "sandbox"))
                ELSE trace
  /\ UNCHANGED <<emitted, server, triggers, runtime, workflows, caller, parked, late, remaining, runningExecutions, phase, outcome, stack, ret, orphans,
                 workers, promises, apiHandlers, capInvoked>>

\* executeInWorker, messageHandler: what a result or error message resolves
\* the promise with
HandlerValue(data) ==
  IF data.type = "result" THEN data.result
  ELSE [success |-> FALSE, error |-> data.error]

\* a message of the worker reaches the parent: worker.onmessage (the
\* dispatcher) and every registered messageHandler see it
ParentReceive(w) ==
  /\ w \in 1..Len(wk)
  /\ wk[w].outbox # <<>>
  /\ LET data == Head(wk[w].outbox)
         settles == data.type \in {"result", "error"}
         heard == {wk[w].listeners[i] : i \in 1..Len(wk[w].listeners)}
     IN /\ capInvoked' = IF DispatcherInvokes(data)
                           THEN Append(capInvoked,
                                       [method |-> data.method, allowed |-> data.allowed])
                           ELSE capInvoked
        /\ wk' = [wk EXCEPT ![w].outbox = Tail(@),
                            ![w].inbox = Append(@, DispatcherResponse(data)),
                            ![w].listeners = IF settles THEN <<>> ELSE @]
        /\ promises' = IF settles
                         THEN [a \in 1..Len(promises) |->
                                 IF a \in heard /\ promises[a].state = "pending"
                                   THEN Resolved(HandlerValue(data))
                                   ELSE promises[a]]
                         ELSE promises
  /\ UNCHANGED <<emitted, server, triggers, runtime, workflows, caller, parked, late, remaining, runningExecutions, phase, outcome, stack, ret, orphans,
                 trace, workers, apiHandlers>>

\* executeInWorker: the 10 second timer fires before a result was heard
Timeout(a) ==
  /\ a \in 1..Len(promises)
  /\ promises[a].state = "pending"
  /\ promises' = [promises EXCEPT ![a] = Rejected(TimeoutError)]
  /\ UNCHANGED <<emitted, server, triggers, runtime, workflows, caller, parked, late, remaining, runningExecutions, phase, outcome, stack, ret, orphans,
                 trace, workers, wk, apiHandlers, capInvoked>>

\* executeSandboxedNode: `await this.sandboxManager.executeSandboxedNode(...)`
\* has settled
SandboxResume ==
  /\ phase = "running" /\ stack # <<>> /\ Top.pc = "sandbox"
  /\ promises[Top.aid].state # "pending"
  /\ LET f == Top
         result == ManagerResult(promises[f.aid])
     IN IF ~result.success
          THEN /\ stack' = Pop
               /\ ret' = Return(FailureResult(SandboxFailureMessage(result), f.npath))
               /\ UNCHANGED trace
          ELSE ContinueWith(f, result.nextCalls)
  /\ emitted' = IF ~ManagerResult(promises[Top.aid]).success
                  THEN Append(emitted, NodeError(Top.node))
                ELSE emitted \o ZeroCallEmits(Top, ManagerResult(promises[Top.aid]).nextCalls)
  /\ UNCHANGED <<server, triggers, runtime, workflows, caller, parked, late, remaining, runningExecutions, phase, outcome, orphans, sandboxVars>>

----------------------------------------------------------------------------
(* The workflows and inputs the model is run on *)

WF == "wf"

P1 == Obj({<<"x", <<"v1">>>>})
P2 == Obj({<<"x", <<"v2">>>>, <<"message", NoMessage>>})
P3 == Obj({<<"message", <<"m1">>>>})

Boom == ErrorOf(<<"boom">>)
Bang == ErrorOf(<<"bang">>)
Blank == ErrorOf(NoMessage)

\* the registry of the sandboxed workflows
Registry ==
  Dir({<<"log", Fn>>, <<"secret", Fn>>, <<"version", Val>>,
       <<"db", Dir({<<"query", Fn>>})>>})

Definition(nodes, protectedFunctions) ==
  [name |-> WF, nodes |-> nodes, protectedFunctions |-> protectedFunctions]
\* the definition with a logger callback
Logged(definition) ==
  [k \in DOMAIN definition \cup {"logger"} |->
     IF k = "logger" THEN Fn ELSE definition[k]]

\* a chain with a conditional: start routes to `a` (then) or `b` (else)
GraphChain ==
  Definition(
    <<Node("start", <<>>,
           {Prog(<<NextStep("SUCCESS", P1)>>, Returns),
            Prog(<<NextStep("a", P1)>>, Returns),
            Prog(<<NextStep("b", P3)>>, Returns),
            Prog(<<NextStep("a", Undefined)>>, Returns),
            Prog(<<NextStep("zzz", P1)>>, Returns),
            Prog(<<NextStep("ERROR", Prim)>>, Returns),
            Prog(<<>>, Returns),
            Prog(<<>>, Throws(Boom)),
            Prog(<<>>, Throws(NonError))}),
      Node("a", <<>>,
           {Prog(<<NextStep("SUCCESS", P3)>>, Returns),
            Prog(<<>>, Returns)}),
      Node("b", <<>>,
           {Prog(<<NextStep("ERROR", P3)>>, Returns),
            Prog(<<NextStep("ERROR", P2)>>, Returns),
            Prog(<<NextStep("ERROR", P1)>>, Returns),
            Prog(<<NextStep("SUCCESS", P1)>>, Throws(Blank))})>>,
    Dir({}))

\* start -> a -> b -> a, and the other ways of closing a cycle
GraphCycle ==
  Definition(
    <<Node("start", <<>>, {Prog(<<NextStep("a", P1)>>, Returns)}),
      Node("a", <<>>,
           {Prog(<<NextStep("b", P1)>>, Returns),
            Prog(<<NextStep("a", P2)>>, Returns)}),
      Node("b", <<>>,
           {Prog(<<NextStep("a", P1)>>, Returns),
            Prog(<<NextStep("start", P1)>>, Returns),
            Prog(<<NextStep("start", P1), NextStep("a", P3)>>, Returns),
            Prog(<<NextStep("SUCCESS", P1)>>, Returns)})>>,
    Dir({}))

\* the fan-out of the tests: start -> (a, b) -> r
GraphDiamond ==
  Definition(
    <<Node("start", <<>>,
           {Prog(<<NextStep("a", P1), NextStep("b", P3)>>, Returns),
            Prog(<<NextStep("a", P1), NextStep("a", P2)>>, Returns),
            Prog(<<NextStep("a", P1), NextStep("zzz", P1)>>, Returns),
            Prog(<<NextStep("SUCCESS", P1), NextStep("a", P1)>>, Returns)}),
      Node("a", <<>>,
           {Prog(<<NextStep("r", P1)>>, Returns),
            Prog(<<NextStep("r", P2), NextStep("SUCCESS", P1)>>, Returns),
            Prog(<<>>, Returns),
            Prog(<<NextStep("r", P1)>>, Throws(Boom))}),
      Node("b", <<>>,
           {Prog(<<NextStep("r", P3)>>, Returns),
            Prog(<<NextStep("r", Prim)>>, Returns),
            Prog(<<NextStep("ERROR", P3), NextStep("r", P2)>>, Returns),
            Prog(<<NextStep("zzz", P3)>>, Returns),
            Prog(<<>>, Returns),
            Prog(<<>>, Throws(Bang))}),
      Node("r", <<>>,
           {Prog(<<NextStep("SUCCESS", P3)>>, Returns),
            Prog(<<>>, Returns),
            Prog(<<NextStep("a", P1), NextStep("b", P1)>>, Returns),
            Prog(<<NextStep("start", P1)>>, Returns)})>>,
    Dir({}))

\* a sandboxed node reached through executeNode: `s` may only use log
GraphSandbox ==
  Definition(
    <<Node("start", <<>>, {Prog(<<NextStep("s", P1)>>, Returns)}),
      Node("s", <<"log">>,
           {Prog(<<NextStep("SUCCESS", P1)>>, Returns),
            Prog(<<>>, Returns),
            Prog(<<CapStep("log", FALSE), NextStep("a", P3)>>, Returns),
            Prog(<<CapStep("log", TRUE), NextStep("SUCCESS", P3)>>, Returns),
            Prog(<<CapStep("secret", FALSE), NextStep("SUCCESS", P1)>>, Returns),
            Prog(<<CapStep("nothere", FALSE)>>, Returns),
            Prog(<<NextStep("a", P1), NextStep("a", P3)>>, Returns),
            Prog(<<>>, Throws(Boom)),
            Prog(<<>>, Throws(Blank)),
            Prog(<<>>, Throws(NonError))}),
      Node("a", <<>>,
           {Prog(<<NextStep("SUCCESS", P3)>>, Returns),
            Prog(<<>>, Returns)})>>,
    Registry)

\* a fan-out whose first-hop branch `s` and whose fan-in target `r` are sandboxed
GraphSandboxBranch ==
  Definition(
    <<Node("start", <<>>, {Prog(<<NextStep("s", P1), NextStep("a", P3)>>, Returns)}),
      Node("s", <<"log">>,
           {Prog(<<NextStep("r", P1)>>, Returns),
            Prog(<<CapStep("log", FALSE), NextStep("r", P2)>>, Returns),
            Prog(<<>>, Returns)}),
      Node("a", <<>>, {Prog(<<NextStep("r", P3)>>, Returns)}),
      Node("r", <<"db.query">>,
           {Prog(<<NextStep("SUCCESS", P1)>>, Returns),
            Prog(<<>>, Returns),
            Prog(<<CapStep("db.query", TRUE)>>, Returns)})>>,
    Registry)

\* two sandboxed nodes in a row, on the same worker
GraphSandboxStart ==
  Definition(
    <<Node("start", <<"log">>,
           {Prog(<<>>, Returns),
            Prog(<<NextStep("t", P1)>>, Returns),
            Prog(<<CapStep("log", TRUE), NextStep("SUCCESS", P3)>>, Returns)}),
      Node("t", <<"log", "db.query">>,
           {Prog(<<>>, Returns),
            Prog(<<CapStep("db.query", FALSE), NextStep("SUCCESS", P3)>>, Returns),
            Prog(<<CapStep("log", TRUE)>>, Returns)})>>,
    Registry)

\* one sandboxed node, executed several times on the same worker
GraphSandboxAgain ==
  Definition(
    <<Node("start", <<"log">>,
           {Prog(<<>>, Returns),
            Prog(<<NextStep("SUCCESS", P1)>>, Returns),
            Prog(<<NextStep("SUCCESS", P1)>>, Throws(Boom))})>>,
    Registry)

\* a workflow created with a logger: a node run by the coordinator and a
\* sandboxed node
GraphLogged ==
  Logged(Definition(
    <<Node("start", <<>>, {Prog(<<NextStep("s", P1)>>, Returns)}),
      Node("s", <<"log">>, {Prog(<<NextStep("SUCCESS", P1)>>, Returns)})>>,
    Registry))

\* another workflow of the same engine, with a registry of its own
GraphOther ==
  Definition(<<Node("start", <<"audit">>, {Prog(<<>>, Returns)})>>,
             Dir({<<"audit", Fn>>}))

Graphs ==
  {GraphChain, GraphCycle, GraphDiamond, GraphSandbox, GraphSandboxBranch, GraphSandboxStart,
   GraphSandboxAgain, GraphLogged}
Inputs == {EmptyObj, P3}
WorkflowNames == {WF, "nowhere"}

\* the createWorkflow calls made on the engine before the execution
Setups ==
  {<<Call(WF, g)>> : g \in Graphs}
    \cup {<<Call("other", GraphOther), Call(WF, GraphSandbox)>>}

\* the number of executeWorkflow calls the application makes: several on the
\* workflow of one sandboxed node, whose worker is then used again
MaxExecutions == 2
Executions(setup) ==
  IF setup = <<Call(WF, GraphSandboxAgain)>> THEN MaxExecutions ELSE 1

\* definitions submitted to createWorkflow, well-formed and not
Plain == {Prog(<<NextStep("SUCCESS", P1)>>, Returns)}
CandEmpty == Definition(<<>>, Dir({}))
CandNoStart == Definition(<<Node("a", <<>>, Plain)>>, Dir({}))
CandDuplicate ==
  Definition(<<Node("start", <<>>, Plain), Node("a", <<>>, Plain), Node("a", <<>>, Plain)>>,
             Dir({}))
CandPlain == Definition(<<Node("start", <<>>, Plain)>>, Dir({}))
CandNested ==
  Definition(<<Node("start", <<>>, Plain), Node("s", <<"log", "db.query">>, Plain)>>, Registry)
CandUnknown ==
  Definition(<<Node("start", <<>>, Plain), Node("s", <<"log", "nothere">>, Plain)>>, Registry)
CandValue ==
  Definition(<<Node("start", <<"version">>, Plain)>>, Registry)
CandObject ==
  Definition(<<Node("start", <<>>, Plain), Node("s", <<"db">>, Plain)>>, Registry)
CandNoParent ==
  Definition(<<Node("start", <<"storage.get">>, Plain)>>, Registry)
CandDuplicateSandboxed ==
  Definition(<<Node("start", <<"log">>, Plain), Node("start", <<"nothere">>, Plain)>>, Registry)
Candidates ==
  {CandEmpty, CandNoStart, CandDuplicate, CandPlain, CandNested, CandUnknown, CandValue,
   CandObject, CandNoParent, CandDuplicateSandboxed, GraphSandbox, GraphOther}
CreateNames == {WF, "other"}
Runtimes == {Deno, NodeJs}

----------------------------------------------------------------------------
(* TriggerManager: the scheduled (cron and interval) triggers               *)

\* the characters of the names the model uses, with '-' a token of its own
Chars(name) ==
  CASE name = "wf-x" -> <<"wf", "-", "x">>
    [] OTHER -> <<name>>

\* String.prototype.startsWith
StartsWith(s, prefix) ==
  /\ Len(prefix) <= Len(s)
  /\ SubSeq(s, 1, Len(prefix)) = prefix

\* `${workflow.name}-${node.name}`
TriggerId(workflowName, nodeName) == Chars(workflowName) \o <<"-">> \o Chars(nodeName)

\* a node with its trigger and trigger options
Triggered(node, trigger, triggerOptions) ==
  [k \in DOMAIN node \cup {"trigger", "triggerOptions"} |->
     CASE k = "trigger" -> trigger
       [] k = "triggerOptions" -> triggerOptions
       [] OTHER -> node[k]]
CronOptions == [cron |-> <<"0 * * * * *">>]
IntervalOptions == [interval |-> 1000]
NoOptions == [none |-> TRUE]

\* a job of the scheduler: its id and what its task closes over
Job(triggerId, type, workflowName, node) ==
  [id |-> triggerId, type |-> type, workflow |-> workflowName, node |-> node]

\* new TriggerManager(workflowEngine); `running` is the task whose handler is
\* suspended at `await executeWorkflow(...)`, `events` what has been emitted
NoJobs == [id \in {} |-> Missing]
NoTask == <<>>
NewTriggerManager ==
  [scheduledJobs |-> NoJobs, scheduler |-> NoJobs, running |-> NoTask,
   events |-> <<>>, thrown |-> NoMessage]

TriggerFired(type, workflowName, nodeName) ==
  [event |-> "triggerFired", type |-> type, workflow |-> workflowName, node |-> nodeName]
TriggerError(type, workflowName, nodeName, error) ==
  [event |-> "triggerError", type |-> type, workflow |-> workflowName, node |-> nodeName,
   error |-> error]
NodeNext(workflowName, from, to, output) ==
  [event |-> "nodeNext", workflow |-> workflowName, from |-> from, to |-> to,
   output |-> output]

With(jobs, job) ==
  [id \in DOMAIN jobs \cup {job.id} |-> IF id = job.id THEN job ELSE jobs[id]]
Except(jobs, ids) == [id \in DOMAIN jobs \ ids |-> jobs[id]]

\* registerCronTrigger / registerIntervalTrigger: the options are checked, the
\* job is added to the scheduler (which refuses an id it already holds) and
\* then recorded in scheduledJobs
RegisterScheduled(tm, type, option, label, triggerId, workflowName, node) ==
  IF "triggerOptions" \notin DOMAIN node \/ option \notin DOMAIN node.triggerOptions
    THEN [tm EXCEPT !.thrown = <<label, node.name, "requires", option>>]
  ELSE IF triggerId \in DOMAIN tm.scheduler
    THEN [tm EXCEPT !.thrown = <<"Job with an id">> \o triggerId \o <<"is already registered.">>]
  ELSE [tm EXCEPT !.scheduler = With(@, Job(triggerId, type, workflowName, node)),
                  !.scheduledJobs = With(@, Job(triggerId, type, workflowName, node))]

\* registerNodeTrigger
RegisterNodeTrigger(tm, workflow, node) ==
  LET triggerId == TriggerId(workflow.name, node.name)
      trigger == IF "trigger" \in DOMAIN node THEN node.trigger ELSE "undefined"
  IN CASE trigger = "cron" ->
            RegisterScheduled(tm, "cron", "cron", "Cron trigger for node",
                              triggerId, workflow.name, node)
       [] trigger = "interval" ->
            RegisterScheduled(tm, "interval", "interval", "Interval trigger for node",
                              triggerId, workflow.name, node)
       [] trigger \in {"rest", "workflow"} -> tm
       [] OTHER -> [tm EXCEPT !.thrown = <<"Unknown trigger type", trigger>>]

\* registerWorkflowTriggers: the nodes in order, up to the first that throws
RECURSIVE RegisterNodes(_, _, _)
RegisterNodes(tm, workflow, nodes) ==
  IF nodes = <<>> \/ tm.thrown # NoMessage THEN tm
  ELSE RegisterNodes(RegisterNodeTrigger(tm, workflow, Head(nodes)), workflow, Tail(nodes))
RegisterWorkflowTriggers(tm, workflow) ==
  RegisterNodes([tm EXCEPT !.thrown = NoMessage], workflow, workflow.nodes)

\* the scheduled jobs that unregisterWorkflowTriggers(workflowName) selects
KeysToRemove(tm, workflowName) ==
  {triggerId \in DOMAIN tm.scheduledJobs :
     StartsWith(triggerId, Chars(workflowName) \o <<"-">>)}

\* unregisterWorkflowTriggers
UnregisterWorkflowTriggers(tm, workflowName) ==
  [tm EXCEPT !.scheduler =
               Except(@, {tm.scheduledJobs[k].id : k \in KeysToRemove(tm, workflowName)}),
             !.scheduledJobs = Except(@, KeysToRemove(tm, workflowName)),
             !.thrown = NoMessage]

\* TriggerManager.stop: every scheduled job is stopped and removed
StopTriggers(tm) ==
  [tm EXCEPT !.scheduler =
               Except(@, {tm.scheduledJobs[k].id : k \in DOMAIN tm.scheduledJobs}),
             !.scheduledJobs = NoJobs,
             !.thrown = NoMessage]

\* getScheduledJobs
GetScheduledJobs(tm) == DOMAIN tm.scheduledJobs

\* the calls of the `next` handed to a non-start node by its task
RECURSIVE NodeNextEvents(_, _)
NodeNextEvents(job, steps) ==
  IF steps = <<>> THEN <<>>
  ELSE (IF Head(steps).op = "next"
          THEN <<NodeNext(job.workflow, job.node.name, Head(steps).target, Head(steps).data)>>
          ELSE <<>>)
       \o NodeNextEvents(job, Tail(steps))

\* the task's handler for a node other than start: the node's function is
\* called with {} and a `next` that only emits; what it throws is caught
RunNodeTask(tm, ws, job, prog) ==
  LET fired == <<TriggerFired(job.type, job.workflow, job.node.name)>>
      calls == IF job.workflow \in DOMAIN ws THEN NodeNextEvents(job, prog.steps) ELSE <<>>
      caught == IF job.workflow \in DOMAIN ws /\ prog.end.thrown
                  THEN <<TriggerError(job.type, job.workflow, job.node.name,
                                      MessageOf(prog.end.error, <<"Unknown error">>))>>
                  ELSE <<>>
  IN [tm EXCEPT !.events = @ \o fired \o calls \o caught]

\* the task's handler for the start node, up to `await executeWorkflow(...)`
BeginStartTask(tm, job) ==
  [tm EXCEPT !.events = Append(@, TriggerFired(job.type, job.workflow, job.node.name)),
             !.running = <<job>>]

\* ... and from the settlement of that promise: the value it fulfils with is
\* dropped, what it rejects with is caught
EndStartTask(tm, settled) ==
  LET job == tm.running[1]
  IN [tm EXCEPT !.running = NoTask,
                !.events = IF settled.kind = "throw"
                             THEN Append(@, TriggerError(job.type, job.workflow, job.node.name,
                                                         MessageOf(settled.error, <<"Unknown error">>)))
                             ELSE @]

----------------------------------------------------------------------------
(* WorkflowServer: serve and stop                                           *)

\* an http.Server made by app.listen: binding until its port is bound,
\* then listening, closing once close() is called, and closed
Listener(port, state, close) == [port |-> port, state |-> state, close |-> close]
NoServer == 0

NewServer ==
  [isRunning |-> FALSE, server |-> NoServer, has404Handler |-> FALSE,
   listeners |-> <<>>, settled |-> <<>>]

ServeSettled(port, result) == [call |-> "serve", port |-> port, result |-> result]
StopSettled == [call |-> "stop", result |-> Return(Missing)]
AlreadyRunning == ErrorOf(<<"Server is already running">>)
AddressInUse(port) == ErrorOf(<<"listen EADDRINUSE", port>>)

\* the ports held by the listeners of this process
Bound(srv) ==
  {srv.listeners[l].port :
     l \in {k \in 1..Len(srv.listeners) : srv.listeners[k].state \in {"listening", "closing"}}}

\* serve(options), up to the return of app.listen
ServeCall(srv, port) ==
  IF srv.isRunning
    THEN [srv EXCEPT !.settled = Append(@, ServeSettled(port, Throw(AlreadyRunning)))]
  ELSE [srv EXCEPT !.has404Handler = TRUE,
                   !.listeners = Append(@, Listener(port, "binding", FALSE)),
                   !.server = Len(srv.listeners) + 1]

\* the listener's port is bound: the callback given to app.listen runs; or the
\* port is taken: the 'error' listener runs
ListenSettles(srv, l) ==
  IF srv.listeners[l].port \in Bound(srv)
    THEN [srv EXCEPT !.listeners[l].state = "failed",
                     !.settled = Append(@, ServeSettled(srv.listeners[l].port,
                                                        Throw(AddressInUse(srv.listeners[l].port))))]
  ELSE [srv EXCEPT !.listeners[l].state = "listening",
                   !.isRunning = TRUE,
                   !.settled = Append(@, ServeSettled(srv.listeners[l].port, Return(Missing)))]

\* stop(), up to the return of server.close
Stopping(srv) == srv.isRunning /\ srv.server # NoServer
StopCall(srv) ==
  IF ~Stopping(srv)
    THEN [srv EXCEPT !.settled = Append(@, StopSettled)]
  ELSE [srv EXCEPT !.listeners[srv.server].close = TRUE,
                   !.listeners[srv.server].state =
                      IF @ = "listening" THEN "closing" ELSE @]

\* the callback given to server.close runs
CloseSettles(srv, l) ==
  [srv EXCEPT !.listeners[l].close = FALSE,
              !.listeners[l].state = IF @ = "closing" THEN "closed" ELSE @,
              !.isRunning = FALSE,
              !.server = NoServer,
              !.settled = Append(@, StopSettled)]

----------------------------------------------------------------------------
(* Specification *)

\* the rest of a new engine
Idle ==
  /\ caller = 1
  /\ parked = Nobody
  /\ late = <<>>
  /\ emitted = <<>>
  /\ server = NewServer
  /\ triggers = NewTriggerManager
  /\ runningExecutions = {}
  /\ phase = "idle"
  /\ outcome = NoRet
  /\ stack = <<>>
  /\ ret = NoRet
  /\ orphans = <<>>
  /\ trace = <<>>
  /\ workers = <<>>
  /\ wk = <<>>
  /\ promises = <<>>
  /\ capInvoked = <<>>

\* the engine once the application has created its workflows, under Deno
Init ==
  /\ runtime = Deno
  /\ \E setup \in Setups :
       /\ workflows = CreateAll(NewEngine, Deno, setup).workflows
       /\ apiHandlers = CreateAll(NewEngine, Deno, setup).apiHandlers
       /\ remaining = Executions(setup)
  /\ Idle

\* a call of createWorkflow
CreateWorkflowCall(name, definition) ==
  /\ phase = "idle"
  /\ LET engine == CreateWorkflow(Engine(workflows, apiHandlers, NoRet), runtime,
                                  name, definition)
     IN /\ workflows' = engine.workflows
        /\ apiHandlers' = engine.apiHandlers
        \* the call is remembered next to what it returned or threw
        /\ outcome' = engine.outcome @@ [call |-> Call(name, definition)]
  /\ UNCHANGED <<emitted, server, triggers, runtime, caller, parked, late, remaining, runningExecutions, phase, stack, ret, orphans,
                 trace, workers, wk, promises, capInvoked>>

\* an engine on which workflows are created, in either runtime
InitCreate ==
  /\ runtime \in Runtimes
  /\ remaining = 0
  /\ workflows = NoWorkflows
  /\ apiHandlers = NoManager
  /\ Idle
NextCreate ==
  \E name \in CreateNames, definition \in Candidates : CreateWorkflowCall(name, definition)
SpecCreate == InitCreate /\ [][NextCreate]_vars

\* the remote api on its own: calls are made through the proxy and messages
\* reach its handler, in any order
MaxCalls == 3
Methods == {"log", "db.query"}
ProxyMessages ==
  {ResponseMessage(h, id, r, e) :
     h \in BOOLEAN, id \in 0..MaxCalls, r \in BOOLEAN, e \in {NoMessage, <<"failed">>}}
    \cup {ExecuteMessage(Node("start", <<"log">>, Plain), EmptyObj, 0)}

ProxyCall(method) ==
  /\ wk[1].nextId < MaxCalls
  /\ wk' = [wk EXCEPT ![1] = RemoteCall(@, method, <<method>>)]
  /\ UNCHANGED <<emitted, server, triggers, runtime, workflows, caller, parked, late, remaining, runningExecutions, phase, outcome, stack,
                 ret, orphans, trace, workers, promises, apiHandlers, capInvoked>>

ProxyMessage(data) ==
  /\ wk' = [wk EXCEPT ![1] = RemoteOnMessage(@, data)]
  /\ UNCHANGED <<emitted, server, triggers, runtime, workflows, caller, parked, late, remaining, runningExecutions, phase, outcome, stack,
                 ret, orphans, trace, workers, promises, apiHandlers, capInvoked>>

InitProxy ==
  /\ runtime = Deno
  /\ remaining = 0
  /\ workflows = NoWorkflows
  /\ apiHandlers = NoManager
  /\ caller = 1
  /\ parked = Nobody
  /\ late = <<>>
  /\ emitted = <<>>
  /\ server = NewServer
  /\ triggers = NewTriggerManager
  /\ runningExecutions = {}
  /\ phase = "idle"
  /\ outcome = NoRet
  /\ stack = <<>>
  /\ ret = NoRet
  /\ orphans = <<>>
  /\ trace = <<>>
  /\ workers = (WF :> 1)
  /\ wk = <<NewWorker>>
  /\ promises = <<>>
  /\ capInvoked = <<>>
NextProxy ==
  \/ \E method \in Methods : ProxyCall(method)
  \/ \E data \in ProxyMessages : ProxyMessage(data)
SpecProxy == InitProxy /\ [][NextProxy]_vars

BranchIndices == IF stack # <<>> THEN 1..Len(Top.branches) ELSE {}
RunIndices(w) == 1..Len(wk[w].runs)

\* two callers of executeWorkflow on one engine: at an await the engine goes
\* on with the call of the other caller
Switch ==
  /\ parked.caller # 0
  /\ parked' = Context(caller, remaining, phase, outcome, stack, ret, trace, emitted)
  /\ caller' = parked.caller
  /\ remaining' = parked.remaining
  /\ phase' = parked.phase
  /\ outcome' = parked.outcome
  /\ stack' = parked.stack
  /\ ret' = parked.ret
  /\ trace' = parked.trace
  /\ emitted' = parked.emitted
  /\ UNCHANGED <<server, triggers, runtime, workflows, late, runningExecutions, orphans, sandboxVars>>

\* start -> a -> r, start -> (a, b) -> r, or start alone
GraphFork ==
  Definition(
    <<Node("start", <<>>,
           {Prog(<<>>, Returns),
            Prog(<<NextStep("a", P1)>>, Returns),
            Prog(<<NextStep("a", P1), NextStep("b", P3)>>, Returns)}),
      Node("a", <<>>, {Prog(<<NextStep("r", P1)>>, Returns)}),
      Node("b", <<>>, {Prog(<<NextStep("r", P3)>>, Returns)}),
      Node("r", <<>>, {Prog(<<>>, Returns)})>>,
    Dir({}))

\* the graphs two callers execute at once: one whose calls succeed, one
\* whose calls fail
ConcurrentGraphs == {GraphFork, GraphCycle}
InitConcurrent ==
  /\ runtime = Deno
  /\ \E g \in ConcurrentGraphs :
       /\ workflows = CreateAll(NewEngine, Deno, <<Call(WF, g)>>).workflows
       /\ apiHandlers = CreateAll(NewEngine, Deno, <<Call(WF, g)>>).apiHandlers
  /\ remaining = 1
  /\ caller = 1
  /\ parked = Context(2, 1, "idle", NoRet, <<>>, NoRet, <<>>, <<>>)
  /\ late = <<>>
  /\ emitted = <<>>
  /\ server = NewServer
  /\ triggers = NewTriggerManager
  /\ runningExecutions = {}
  /\ phase = "idle"
  /\ outcome = NoRet
  /\ stack = <<>>
  /\ ret = NoRet
  /\ orphans = <<>>
  /\ trace = <<>>
  /\ workers = <<>>
  /\ wk = <<>>
  /\ promises = <<>>
  /\ capInvoked = <<>>
NextConcurrent ==
  \/ \E n \in WorkflowNames, input \in Inputs : ExecuteWorkflow(n, input)
  \/ EnterNode
  \/ LogicStep
  \/ LogicEnd
  \/ \E i \in BranchIndices : BranchStep(i)
  \/ \E i \in BranchIndices : BranchEnd(i)
  \/ BranchesJoin
  \/ TargetStep
  \/ AwaitReturn
  \/ Finish
  \/ Switch
SpecConcurrent == InitConcurrent /\ [][NextConcurrent]_vars

\* node logic calls next(...) after nodeExecutionComplete was set: nextFunction
\* calls executeNode at once, on the path of the node that has completed
LateNext(i) ==
  /\ i \in 1..Len(late)
  /\ parked = Nobody
  /\ parked' = Context(Detached, 0, "running", NoRet,
                       <<Frame(late[i].wf, late[i].target, late[i].data, late[i].path)>>,
                       NoRet, <<>>, <<>>)
  /\ late' = RemoveAt(late, i)
  /\ UNCHANGED <<emitted, server, triggers, runtime, workflows, caller, remaining, runningExecutions, phase, outcome,
                 stack, ret, orphans, trace, sandboxVars>>

\* the executeNode call of a late next(...) settles: nextFunction returns, or
\* its promise rejects, into the node logic
LateReturn ==
  /\ caller = Detached
  /\ phase = "running" /\ stack = <<>> /\ ret.kind # "none"
  /\ phase' = "done"
  /\ outcome' = ret
  /\ ret' = NoRet
  /\ UNCHANGED <<emitted, server, triggers, runtime, workflows, caller, parked, late, remaining, runningExecutions,
                 stack, orphans, trace, sandboxVars>>

\* start calls next('a') and, once it has returned, next('b') or next('zzz')
GraphLate ==
  Definition(
    <<Node("start", <<>>,
           {LateProg(<<NextStep("a", P1)>>, Returns, <<NextStep("b", P3)>>),
            LateProg(<<>>, Returns, <<NextStep("zzz", P1)>>),
            LateProg(<<>>, Throws(Boom), <<NextStep("b", P3)>>)}),
      Node("a", <<>>, {Prog(<<NextStep("SUCCESS", P1)>>, Returns)}),
      Node("b", <<>>, {Prog(<<NextStep("SUCCESS", P3)>>, Returns)})>>,
    Dir({}))

InitLate ==
  /\ runtime = Deno
  /\ workflows = CreateAll(NewEngine, Deno, <<Call(WF, GraphLate)>>).workflows
  /\ apiHandlers = CreateAll(NewEngine, Deno, <<Call(WF, GraphLate)>>).apiHandlers
  /\ remaining = 1
  /\ Idle
NextLate ==
  \/ \E n \in WorkflowNames, input \in Inputs : ExecuteWorkflow(n, input)
  \/ EnterNode
  \/ LogicStep
  \/ LogicEnd
  \/ AwaitReturn
  \/ Finish
  \/ \E i \in 1..Len(late) : LateNext(i)
  \/ LateReturn
  \/ Switch
SpecLate == InitLate /\ [][NextLate]_vars

\* the sandbox manager on its own: activations are handed to it, workers
\* raise error events, and workers are torn down by name or all at once
MaxManagerCalls == 4
ManagerNames == {WF, "other"}
TeardownNames == ManagerNames \cup {"nowhere"}
ManagerEvent(ev, name) == [ev |-> ev, name |-> name]

\* SandboxManager.executeSandboxedNode, up to the posting of the execute message
SandboxExecute(workflowName) ==
  /\ Len(trace) < MaxManagerCalls
  /\ LET got == GetOrCreateWorker(workflowName)
         a == Len(promises) + 1
     IN /\ workers' = got.workers
        /\ wk' = ExecuteInWorker(got.wk, got.worker, Node("start", <<"log">>, Plain),
                                 EmptyObj, a)
        /\ promises' = Append(promises, Pending)
  /\ trace' = Append(trace, ManagerEvent("execute", workflowName))
  /\ UNCHANGED <<emitted, server, triggers, runtime, workflows, caller, parked, late, remaining, runningExecutions, phase, outcome, stack,
                 ret, orphans, apiHandlers, capInvoked>>

\* worker.onerror: a worker that has not been terminated raises an error event
WorkerError(w) ==
  /\ Len(trace) < MaxManagerCalls
  /\ w \in 1..Len(wk) /\ wk[w].terminated = 0
  /\ LET m == RemoveWorker(Manager(workers, wk), OwnerOf(w))
     IN workers' = m.workers /\ wk' = m.wk
  /\ trace' = Append(trace, ManagerEvent("error", OwnerOf(w)))
  /\ UNCHANGED <<emitted, server, triggers, runtime, workflows, caller, parked, late, remaining, runningExecutions, phase, outcome, stack,
                 ret, orphans, promises, apiHandlers, capInvoked>>

\* the application calls removeWorker(workflowName)
RemoveWorkerCall(workflowName) ==
  /\ Len(trace) < MaxManagerCalls
  /\ LET m == RemoveWorker(Manager(workers, wk), workflowName)
     IN workers' = m.workers /\ wk' = m.wk
  /\ trace' = Append(trace, ManagerEvent("removeWorker", workflowName))
  /\ UNCHANGED <<emitted, server, triggers, runtime, workflows, caller, parked, late, remaining, runningExecutions, phase, outcome, stack,
                 ret, orphans, promises, apiHandlers, capInvoked>>

\* the application calls cleanup()
CleanupCall ==
  /\ Len(trace) < MaxManagerCalls
  /\ LET m == Cleanup(Manager(workers, wk))
     IN workers' = m.workers /\ wk' = m.wk
  /\ trace' = Append(trace, ManagerEvent("cleanup", ""))
  /\ UNCHANGED <<emitted, server, triggers, runtime, workflows, caller, parked, late, remaining, runningExecutions, phase, outcome, stack,
                 ret, orphans, promises, apiHandlers, capInvoked>>

InitManager ==
  /\ runtime = Deno
  /\ remaining = 0
  /\ workflows = NoWorkflows
  /\ apiHandlers = Registry
  /\ Idle
NextManager ==
  \/ \E n \in ManagerNames : SandboxExecute(n)
  \/ \E w \in 1..Len(wk) : WorkerError(w)
  \/ \E n \in TeardownNames : RemoveWorkerCall(n)
  \/ CleanupCall
SpecManager == InitManager /\ [][NextManager]_vars

----------------------------------------------------------------------------
(* The server: createWorkflow, serve and stop in any order                  *)

engineVars == <<caller, parked, late, remaining, runningExecutions, phase, outcome, stack,
                ret, orphans, trace, emitted>>

\* a workflow with an interval trigger on start and a cron trigger on `poll`
GraphInterval ==
  Definition(
    <<Triggered(Node("start", <<>>,
                     {Prog(<<NextStep("SUCCESS", P1)>>, Returns),
                      Prog(<<NextStep("ERROR", P1)>>, Returns),
                      Prog(<<>>, Throws(Boom))}),
                "interval", IntervalOptions),
      Triggered(Node("poll", <<>>,
                     {Prog(<<NextStep("start", P1)>>, Returns),
                      Prog(<<>>, Throws(Boom)),
                      Prog(<<>>, Throws(NonError))}),
                "cron", CronOptions)>>,
    Dir({}))
\* a workflow with a cron trigger on start
GraphCron ==
  Definition(<<Triggered(Node("start", <<>>, Plain), "cron", CronOptions)>>, Dir({}))
\* a workflow whose triggers are not scheduled ones
GraphRest ==
  Definition(<<Triggered(Node("start", <<>>, Plain), "rest", NoOptions),
               Triggered(Node("a", <<>>, Plain), "workflow", NoOptions)>>, Dir({}))
\* a definition whose registration throws after one node has been registered
GraphNoOptions ==
  Definition(<<Triggered(Node("start", <<>>, Plain), "cron", CronOptions),
               Triggered(Node("a", <<>>, Plain), "interval", NoOptions)>>, Dir({}))
\* a definition with a node whose trigger is none of the four
GraphUnknownTrigger ==
  Definition(<<Triggered(Node("start", <<>>, Plain), "rest", NoOptions),
               Node("a", <<>>, Plain)>>, Dir({}))
TriggerGraphs == {GraphInterval, GraphCron, GraphNoOptions}
TriggerNames == {WF, "wf-x"}

\* WorkflowServer.createWorkflow: the engine's createWorkflow, then the
\* registration of the workflow's triggers; what either throws is rethrown
ServerCreateWorkflow(name, definition) ==
  /\ phase \in {"idle", "done"}
  /\ triggers.running = NoTask
  /\ LET engine == CreateWorkflow(Engine(workflows, apiHandlers, NoRet), runtime,
                                  name, definition)
     IN /\ workflows' = engine.workflows
        /\ apiHandlers' = engine.apiHandlers
        /\ triggers' = IF engine.outcome.kind = "return"
                         THEN RegisterWorkflowTriggers(triggers, engine.outcome.result)
                         ELSE triggers
  /\ UNCHANGED <<server, runtime, engineVars, workers, wk, promises, capInvoked>>

MaxServerCalls == 4
Ports == {3002, 3003}
ServerCalls == Len(server.listeners) + Len(server.settled)

\* serve({port})
Serve(port) ==
  /\ ServerCalls < MaxServerCalls
  /\ server' = ServeCall(server, port)
  /\ UNCHANGED <<triggers, runtime, workflows, engineVars, sandboxVars>>

\* the outcome of app.listen arrives
Listen(l) ==
  /\ l \in 1..Len(server.listeners)
  /\ server.listeners[l].state = "binding"
  /\ server' = ListenSettles(server, l)
  /\ UNCHANGED <<triggers, runtime, workflows, engineVars, sandboxVars>>

\* stop()
Stop ==
  /\ ServerCalls < MaxServerCalls
  /\ server' = StopCall(server)
  /\ triggers' = IF Stopping(server) THEN StopTriggers(triggers) ELSE triggers
  /\ UNCHANGED <<runtime, workflows, engineVars, sandboxVars>>

\* the callback of server.close runs
Closed(l) ==
  /\ l \in 1..Len(server.listeners)
  /\ server.listeners[l].close
  /\ server' = CloseSettles(server, l)
  /\ UNCHANGED <<triggers, runtime, workflows, engineVars, sandboxVars>>

InitServer ==
  /\ runtime = Deno
  /\ remaining = 0
  /\ workflows = NoWorkflows
  /\ apiHandlers = NoManager
  /\ Idle
NextServer ==
  \/ \E name \in {WF, "other"}, g \in {GraphInterval, GraphRest, GraphUnknownTrigger} :
       ServerCreateWorkflow(name, g)
  \/ \E port \in Ports : Serve(port)
  \/ \E l \in 1..MaxServerCalls : Listen(l)
  \/ Stop
  \/ \E l \in 1..MaxServerCalls : Closed(l)
SpecServer == InitServer /\ [][NextServer]_vars

----------------------------------------------------------------------------
(* The trigger manager: registration, unregistration and scheduled ticks    *)

MaxTicks == 2

\* triggerManager.unregisterWorkflowTriggers(workflowName)
Unregister(workflowName) ==
  /\ triggers' = UnregisterWorkflowTriggers(triggers, workflowName)
  /\ UNCHANGED <<server, runtime, workflows, engineVars, sandboxVars>>

\* the scheduler runs the task of a job on the start node
TickStart(id) ==
  /\ id \in DOMAIN triggers.scheduler
  /\ triggers.scheduler[id].node.name = "start"
  /\ triggers.running = NoTask
  /\ BeginExecution(triggers.scheduler[id].workflow, EmptyObj)
  /\ triggers' = BeginStartTask(triggers, triggers.scheduler[id])

\* the executeWorkflow promise awaited by the task settles
TickEnd ==
  /\ triggers.running # NoTask
  /\ phase = "done"
  /\ triggers' = EndStartTask(triggers, outcome)
  /\ UNCHANGED <<server, runtime, workflows, engineVars, sandboxVars>>

\* the scheduler runs the task of a job on another node
TickNode(id) ==
  /\ id \in DOMAIN triggers.scheduler
  /\ triggers.scheduler[id].node.name # "start"
  /\ triggers.running = NoTask
  /\ phase \in {"idle", "done"}
  /\ remaining > 0
  /\ remaining' = remaining - 1
  /\ \E prog \in triggers.scheduler[id].node.logic :
       triggers' = RunNodeTask(triggers, workflows, triggers.scheduler[id], prog)
  /\ UNCHANGED <<server, runtime, workflows, caller, parked, late, runningExecutions, phase,
                 outcome, stack, ret, orphans, trace, emitted, sandboxVars>>

TriggerIds == {TriggerId(name, node) : name \in TriggerNames, node \in {"start", "poll"}}

InitTriggers ==
  /\ runtime = Deno
  /\ remaining = MaxTicks
  /\ workflows = NoWorkflows
  /\ apiHandlers = NoManager
  /\ Idle
NextTriggers ==
  \/ \E name \in TriggerNames, g \in TriggerGraphs : ServerCreateWorkflow(name, g)
  \/ \E name \in TriggerNames : Unregister(name)
  \/ \E id \in TriggerIds : TickStart(id)
  \/ \E id \in TriggerIds : TickNode(id)
  \/ TickEnd
  \/ EnterNode
  \/ LogicStep
  \/ LogicEnd
  \/ AwaitReturn
  \/ Finish
SpecTriggers == InitTriggers /\ [][NextTriggers]_vars


Next ==
  \/ \E n \in WorkflowNames, input \in Inputs : ExecuteWorkflow(n, input)
  \/ EnterNode
  \/ LogicStep
  \/ LogicEnd
  \/ \E i \in BranchIndices : BranchStep(i)
  \/ \E i \in BranchIndices : BranchEnd(i)
  \/ BranchesJoin
  \/ TargetStep
  \/ AwaitReturn
  \/ Finish
  \/ \E i \in 1..Len(orphans) : OrphanStep(i)
  \/ \E w \in 1..Len(wk) : WorkerReceive(w)
  \/ \E w \in 1..Len(wk) : \E r \in RunIndices(w) : WorkerStep(w, r)
  \/ \E w \in 1..Len(wk) : \E r \in RunIndices(w) : WorkerEnd(w, r)
  \/ \E w \in 1..Len(wk) : ParentReceive(w)
  \/ \E a \in 1..Len(promises) : Timeout(a)
  \/ SandboxResume

Spec == Init /\ [][Next]_vars

\* every step but the caller's decision to call executeWorkflow: node logic
\* that has been started runs to its end, posted messages are delivered,
\* a pending timer fires
Progress ==
  \/ EnterNode
  \/ LogicStep
  \/ LogicEnd
  \/ \E i \in BranchIndices : BranchStep(i)
  \/ \E i \in BranchIndices : BranchEnd(i)
  \/ BranchesJoin
  \/ TargetStep
  \/ AwaitReturn
  \/ Finish
  \/ \E i \in 1..Len(orphans) : OrphanStep(i)
  \/ \E w \in 1..Len(wk) : WorkerReceive(w)
  \/ \E w \in 1..Len(wk) : \E r \in RunIndices(w) : WorkerStep(w, r)
  \/ \E w \in 1..Len(wk) : \E r \in RunIndices(w) : WorkerEnd(w, r)
  \/ \E w \in 1..Len(wk) : ParentReceive(w)
  \/ \E a \in 1..Len(promises) : Timeout(a)
  \/ SandboxResume

FairSpec == Spec /\ WF_vars(Progress)

----------------------------------------------------------------------------
(* Properties *)

IsText(e) == e \in Seq(STRING)
Done == phase = "done"

\* C1: executeWorkflow never throws or rejects to its caller: whatever the
\* workflow name, the input and the node logic, its promise resolves to a
\* Result with a boolean success, and a failed Result carries an error string.
C1_NeverThrows ==
  Done =>
    /\ outcome.kind = "return"
    /\ outcome.result.success \in BOOLEAN
    /\ ~outcome.result.success =>
         ("error" \in DOMAIN outcome.result /\ IsText(outcome.result.error))

\* a node threw, and the execution ended with a failed Result
C1_Witness ==
  /\ Done
  /\ outcome.kind = "return"
  /\ ~outcome.result.success
  /\ outcome.result.error = <<"boom">>

\* C2: every executeWorkflow call eventually returns a Result, cycles and
\* nested fan-out included, and the nesting depth of executeNode calls never
\* exceeds the number of nodes of the graph plus one.
Depth == Len(stack)
NodeCount == Len(workflows[WF].nodes)
C2_Terminates ==
  /\ [](Depth <= NodeCount + 1)
  /\ (phase = "running") ~> Done

\* a cycle is about to be detected at the deepest possible nesting
C2_Witness ==
  /\ Depth = NodeCount + 1
  /\ IsCircular(Top.path, Top.node)

Events == 1..Len(trace)
Activates(e) == e.ev = "delegate" \/ (e.ev = "invoke" /\ e.via # "sandbox")
ThroughResolve(e) == e.ev = "delegate" \/ (e.ev = "invoke" /\ e.via = "resolve")
FanOutHappened == \E i \in Events : trace[i].ev = "invoke" /\ trace[i].via = "branch"
IsCycleError(error) ==
  error.isError /\ error.message # <<>> /\ error.message[1] = "Circular dependency detected"
MentionsCycle(message, nodeName) ==
  /\ message # <<>>
  /\ message[1] = "Circular dependency detected"
  /\ message[Len(message)] = nodeName
FailedWithCycle(result, nodeName) ==
  /\ ~result.success
  /\ MentionsCycle(result.error, nodeName)

\* the nodes that a continuation targeted while their name was on the path
TargetedOnPath ==
  {trace[i].node : i \in {j \in Events :
      trace[j].ev = "circular" \/ (Activates(trace[j]) /\ InPath(trace[j].path, trace[j].node))}}

\* C3 as stated: when a continuation targets a node whose name is already on
\* the execution path, the node's logic is not invoked again and the
\* execution's Result is a failure whose error contains 'Circular dependency'
\* and the repeated node name.
C3_Original ==
  /\ \A i \in Events : Activates(trace[i]) => ~InPath(trace[i].path, trace[i].node)
  /\ Done => \A n \in TargetedOnPath :
               outcome.kind = "return" /\ FailedWithCycle(outcome.result, n)

\* C3 as amended: a continuation that is resolved through executeNode (a
\* single call or a grouped fan-in target, not a first-hop branch of a
\* fan-out) and targets a node already on the execution path does not invoke
\* that node's logic; the resolution fails with an error that contains
\* 'Circular dependency' and the repeated name, the calling activation
\* returns it as a Result with success=false, and in an execution without
\* fan-out this is the execution's Result.
NoRepeatOnResolve ==
  \A i \in Events : ThroughResolve(trace[i]) => ~InPath(trace[i].path, trace[i].node)
CycleErrorNamesNode ==
  (ret.kind = "throw" /\ IsCycleError(ret.error)) =>
    /\ trace # <<>>
    /\ trace[Len(trace)].ev = "circular"
    /\ InPath(trace[Len(trace)].path, trace[Len(trace)].node)
    /\ MentionsCycle(ret.error.message, trace[Len(trace)].node)
CycleCaughtByCaller ==
  (ret.kind = "throw" /\ IsCycleError(ret.error) /\ stack # <<>> /\ ret' # ret) =>
    ret' = Return(FailureResult(ret.error.message, Top.npath))
CycleIsTheResult ==
  (Done /\ ~FanOutHappened) =>
    \A i \in Events : trace[i].ev = "circular" =>
      outcome.kind = "return" /\ FailedWithCycle(outcome.result, trace[i].node)
C3_CycleDetected ==
  /\ []NoRepeatOnResolve
  /\ []CycleErrorNamesNode
  /\ [][CycleCaughtByCaller]_vars
  /\ []CycleIsTheResult

\* start -> a -> b -> a has been executed to its end
C3_Witness ==
  /\ Done
  /\ outcome.kind = "return"
  /\ ~outcome.result.success
  /\ outcome.result.error = <<"Circular dependency detected", "start", "a", "b", "a">>

\* C4: the logic of a node with a non-empty sandbox list is never invoked
\* directly in the coordinator's process, whether the node is reached through
\* executeNode or as a first-hop branch of a fan-out.
RanInCoordinator(e) == e.ev = "invoke" /\ e.via \in {"resolve", "branch"}
C4_SandboxedNeverDirect ==
  \A i \in Events :
    RanInCoordinator(trace[i]) => ~IsSandboxed(FindNode(workflows[WF], trace[i].node))

\* C5: the parent invokes a registry function for a worker request only when
\* the requested name is in the sandbox list of the node whose activation sent
\* the request.
InList(list, name) == \E i \in 1..Len(list) : list[i] = name
C5_OnlyWhitelisted ==
  \A i \in 1..Len(capInvoked) : InList(capInvoked[i].allowed, capInvoked[i].method)

\* the fan-in of a fan-out: the calls its branches made to one target, and the
\* resolutions of that target issued by the fan-out
Joins == {i \in Events : trace[i].ev = "join"}
CallsTo(calls, t) == SelectSeq(calls, LAMBDA c : c.targetNode = t)
Payloads(calls) == [i \in 1..Len(calls) |-> calls[i].data]
FanInTargets(e) ==
  {t \in {e.calls[i].targetNode : i \in 1..Len(e.calls)} :
     HasNode(workflows[WF], t) /\ Len(CallsTo(e.calls, t)) >= 2}
Resolutions(e, t) ==
  {i \in Events : /\ ThroughResolve(trace[i])
                  /\ trace[i].node = t
                  /\ trace[i].path = e.path}
\* shallow merge: every key of every object payload, with the value of the
\* last payload that has the key
MergeKeys(datas) ==
  {p[1] : p \in UNION {datas[i].f : i \in {j \in 1..Len(datas) : IsObject(datas[j])}}}
LastWith(datas, k) ==
  CHOOSE i \in 1..Len(datas) :
    /\ HasKey(datas[i], k)
    /\ \A j \in (i + 1)..Len(datas) : ~HasKey(datas[j], k)
ShallowMerge(datas) ==
  Obj({<<k, Get(datas[LastWith(datas, k)], k)>> : k \in MergeKeys(datas)})
ExecutedOnceMerged(e, t) ==
  /\ Cardinality(Resolutions(e, t)) = 1
  /\ \A i \in Resolutions(e, t) :
       trace[i].input = ShallowMerge(Payloads(CallsTo(e.calls, t)))
\* the targets the loop over the grouped targets reaches before t, and t
FirstCall(calls, t) == CHOOSE i \in 1..Len(calls) :
  calls[i].targetNode = t /\ \A j \in 1..(i - 1) : calls[j].targetNode # t
UpTo(calls, t) == {calls[i].targetNode : i \in 1..FirstCall(calls, t)}
Resolvable(e, u) ==
  /\ ~InPath(e.path, u)
  /\ HasNode(workflows[WF], u) \/ u \in {"SUCCESS", "ERROR"}

C7_BranchesAwaited ==
  \A i \in 1..Len(orphans) : orphans[i].status # "running"

Last(seq) == seq[Len(seq)]
Sentinels == {i \in Events : trace[i].ev = "sentinel"}
MessageOrDefault(input) ==
  IF HasKey(input, "message") /\ Get(input, "message") # <<>>
    THEN Get(input, "message")
    ELSE <<"Workflow ended with error">>
\* r is the Result the claim gives to the resolution of sentinel `node` with `input`
IsSentinelResult(r, node, input) ==
  /\ "executionPath" \in DOMAIN r
  /\ r.executionPath # <<>>
  /\ Last(r.executionPath) = node
  /\ IF node = "SUCCESS"
       THEN r.success /\ "result" \in DOMAIN r /\ r.result = input
       ELSE ~r.success /\ "error" \in DOMAIN r /\ r.error = MessageOrDefault(input)
EndsWithSentinels ==
  Done => \A i \in Sentinels :
            /\ outcome.kind = "return"
            /\ IsSentinelResult(outcome.result, trace[i].node, trace[i].input)
\* a fan-out whose branches named more than one distinct target
SeveralTargets(e) == Cardinality({e.calls[i].targetNode : i \in 1..Len(e.calls)}) > 1

\* C8 as stated: resolving SUCCESS ends the execution with success=true, the
\* data passed as value and a path ending in SUCCESS; resolving ERROR ends it
\* with success=false, the data's message (or the default) as error and a
\* path ending in ERROR.
C8_Original == EndsWithSentinels

\* C8 as amended: the resolution of a sentinel returns that Result, and it is
\* the Result of the execution unless a fan-out of the execution grouped more
\* than one distinct target.
ResolvesSentinel ==
  /\ phase = "running" /\ stack # <<>> /\ Top.pc = "entry"
  /\ Top.node \in {"SUCCESS", "ERROR"}
  /\ stack' # stack
SentinelReturns ==
  ResolvesSentinel =>
    /\ ret'.kind = "return"
    /\ IsSentinelResult(ret'.result, Top.node, Top.input)
C8_Sentinels ==
  /\ [][SentinelReturns]_vars
  /\ []((\A j \in Joins : ~SeveralTargets(trace[j])) => EndsWithSentinels)
C8_Witness ==
  /\ Done /\ outcome.kind = "return" /\ ~outcome.result.success
  /\ outcome.result.error = <<"Workflow ended with error">>
  /\ outcome.result.executionPath = <<"start", "b", "ERROR">>
  /\ \E i \in Sentinels : trace[i].node = "ERROR" /\ trace[i].input = P2

\* C9: a node whose logic throws an Error yields a Result with success=false
\* and the thrown error's message as error.  Stated for the executions in
\* which that Result is the execution's: no fan-out, no sandbox timeout.
Throwers == {i \in Events : trace[i].ev = "throw" /\ trace[i].error.isError}
NoTimeout == \A a \in 1..Len(promises) : promises[a].state # "rejected"
C9_ThrownMessage ==
  (Done /\ Joins = {} /\ NoTimeout) =>
    \A i \in Throwers :
      /\ outcome.kind = "return"
      /\ ~outcome.result.success
      /\ "error" \in DOMAIN outcome.result
      /\ outcome.result.error = trace[i].error.message

\* C10: an activation reached through executeNode, sandboxed or not, that
\* makes no next() call gives success=true, its own input as value and the
\* path on entry extended by its name once.  Stated for the executions that
\* such an activation ends: success without fan-out and without sentinel.
LastResolved ==
  trace[CHOOSE i \in Events :
          ThroughResolve(trace[i]) /\ \A j \in (i + 1)..Len(trace) : ~ThroughResolve(trace[j])]
C10_ZeroCalls ==
  (Done /\ Joins = {} /\ Sentinels = {}
        /\ outcome.kind = "return" /\ outcome.result.success) =>
    /\ outcome.result.result = LastResolved.input
    /\ outcome.result.executionPath = Append(LastResolved.path, LastResolved.node)

\* C11: when a continuation targets a name that is neither a node nor a
\* sentinel, the execution fails with a Node Not Found error naming the
\* target, and the path of the Result ends with that name.  Stated for the
\* executions without fan-out, where that failure is the execution's Result.
Unknowns == {i \in Events : trace[i].ev = "unknown"}
C11_NotFoundPath ==
  (Done /\ Joins = {}) =>
    \A i \in Unknowns :
      /\ outcome.kind = "return"
      /\ ~outcome.result.success
      /\ outcome.result.error = <<"Node not found in workflow", trace[i].node, WF>>
      /\ "executionPath" \in DOMAIN outcome.result
      /\ Last(outcome.result.executionPath) = trace[i].node

\* C12: after a fan-out, if the resolution of any grouped target failed, the
\* overall Result is the first failure in target-processing order, whatever
\* way a later target fails; if none failed it is the Result of the first
\* target processed, with its path defaulted to the fan-out path.
Merges == {i \in Events : trace[i].ev = "merge"}
Failures(results) == {k \in 1..Len(results) : ~results[k].result.success}
FirstFailure(results) ==
  results[CHOOSE k \in Failures(results) : \A l \in Failures(results) : k <= l].result
C12_FirstFailure ==
  \A i \in Merges :
    LET e == trace[i] IN
    IF Failures(e.results) # {}
      THEN e.result = FirstFailure(e.results)
    ELSE IF e.thrown
      THEN ~e.result.success
    ELSE IF e.results # <<>>
      THEN /\ e.result.success = e.results[1].result.success
           /\ e.result.result = e.results[1].result.result
           /\ e.result.executionPath =
                (IF "executionPath" \in DOMAIN e.results[1].result
                   THEN e.results[1].result.executionPath ELSE e.path)
    ELSE TRUE

\* C13: a grouped fan-in target with one contributing call gets its payload
\* verbatim; with several it gets the shallow merge of their payload objects
\* in interception order, the last contributor winning a key collision.
GroupTargets(e) == {e.calls[i].targetNode : i \in 1..Len(e.calls)}
ResolvedBy(e, t) ==
  {i \in Events : /\ ThroughResolve(trace[i]) \/ trace[i].ev = "sentinel"
                  /\ trace[i].node = t
                  /\ trace[i].path = e.path}
ExpectedInput(calls) ==
  IF Len(calls) = 1 THEN calls[1].data ELSE ShallowMerge(Payloads(calls))
C13_MergedInput ==
  \A j \in Joins : \A t \in GroupTargets(trace[j]) :
    \A i \in ResolvedBy(trace[j], t) :
      i > j => trace[i].input = ExpectedInput(CallsTo(trace[j].calls, t))
C13_Witness ==
  \E j \in Joins :
    /\ Len(CallsTo(trace[j].calls, "r")) = 2
    /\ CallsTo(trace[j].calls, "r")[1].fromBranch = "b"
    /\ CallsTo(trace[j].calls, "r")[1].data = P3
    /\ CallsTo(trace[j].calls, "r")[2].fromBranch = "a"
    /\ CallsTo(trace[j].calls, "r")[2].data = P2
    /\ \E i \in ResolvedBy(trace[j], "r") :
         i > j /\ trace[i].input = Obj({<<"x", <<"v2">>>>, <<"message", NoMessage>>})

\* createWorkflow has been called: what was submitted, and how it ended
Called == outcome.kind \in {"return", "throw"} /\ "call" \in DOMAIN outcome
Submitted == outcome.call.definition
Succeeded == Called /\ outcome.kind = "return"
NamesDistinct(nodes) ==
  \A i, j \in 1..Len(nodes) : nodes[i].name = nodes[j].name => i = j
AllResolve(d) ==
  \A i \in 1..Len(d.nodes) : \A j \in 1..Len(d.nodes[i].sandbox) :
    Walk(d.protectedFunctions, Split(d.nodes[i].sandbox[j])) = Fn
WellFormed(d) ==
  /\ Len(d.nodes) >= 1
  /\ \E i \in 1..Len(d.nodes) : d.nodes[i].name = "start"
  /\ NamesDistinct(d.nodes)
  /\ AllResolve(d)
AnySandboxed(d) == \E i \in 1..Len(d.nodes) : Len(d.nodes[i].sandbox) > 0
Registered ==
  /\ outcome.call.name \in DOMAIN workflows
  /\ workflows[outcome.call.name].nodes = Submitted.nodes

\* C14 as stated: createWorkflow succeeds if and only if the definition has
\* at least one node, a node named start, no duplicate node names, and every
\* name of every sandboxed node's list resolves by dot-path traversal to a
\* callable of the supplied registry; otherwise it throws.
C14_Original ==
  Called => (Succeeded <=> WellFormed(Submitted))

\* C14 as amended: ... and, when a node is sandboxed, the runtime is Deno.
C14_CreateIff ==
  Called =>
    /\ Succeeded <=> (WellFormed(Submitted) /\ (AnySandboxed(Submitted) => runtime.isDeno))
    /\ Succeeded => Registered
C14_Witness ==
  /\ Succeeded /\ Submitted = CandNested /\ Registered

\* C15: a sandboxed node whose list is ['log'] and whose logic calls a
\* capability outside that list makes createWorkflow throw, with an error
\* naming that capability.  Stated for the runtime that supports sandboxes.
OutsideCalls(node) ==
  UNION {{p.steps[k].method :
            k \in {l \in 1..Len(p.steps) :
                     p.steps[l].op = "cap" /\ ~InList(node.sandbox, p.steps[l].method)}} :
         p \in node.logic}
C15_RejectedAtConstruction ==
  (Called /\ runtime.isDeno) =>
    \A i \in 1..Len(Submitted.nodes) :
      LET node == Submitted.nodes[i] IN
      (node.sandbox = <<"log">> /\ OutsideCalls(node) # {}) =>
        /\ outcome.kind = "throw"
        /\ \E m \in OutsideCalls(node) : InList(outcome.error.message, m)

----------------------------------------------------------------------------
(* The workers of the sandbox manager *)

\* a sandboxed activation is being handed to the manager in this step
Activating == Len(promises') = Len(promises) + 1
\* the workers of the manager are distinct workers, and no other was made
OneWorkerPerName ==
  /\ \A n \in DOMAIN workers : workers[n] \in 1..Len(wk)
  /\ \A n, m \in DOMAIN workers : workers[n] = workers[m] => n = m
  /\ Len(wk) = Cardinality(DOMAIN workers)
\* the worker of a name stays the worker of that name
WorkerKept ==
  \A n \in DOMAIN workers : n \in DOMAIN workers' /\ workers'[n] = workers[n]
\* an activation makes a worker only when its workflow has none, and its
\* execute message goes to the worker of its workflow
ActivationUsesWorker ==
  Activating =>
    LET n == Top.wf
        a == Len(promises')
    IN /\ n \in DOMAIN workers'
       /\ Len(wk') = (IF HasWorker(n) THEN Len(wk) ELSE Len(wk) + 1)
       /\ wk'[workers'[n]].inbox # <<>>
       /\ Last(wk'[workers'[n]].inbox).type = "execute"
       /\ Last(wk'[workers'[n]].inbox).of = a
       /\ \A w \in 1..Len(wk) : w # workers'[n] => wk'[w] = wk[w]

OwnOutcome(a) ==
  (promises[a].state = "resolved" /\ "of" \in DOMAIN promises[a].value)
    => promises[a].value.of = a
C17_OwnOutcome ==
  \A a \in 1..Len(promises) : OwnOutcome(a)

----------------------------------------------------------------------------
(* The capability proxy of the worker *)

\* the workers and correlation ids the workflows above can come to use
WorkerIds == 1..2
CorrelationIds == 0..3

\* the parent has posted the response for the call `id` of worker w, whose
\* caller has not been settled
ResponsePosted(w, id) ==
  /\ w \in 1..Len(wk)
  /\ id \in wk[w].pending
  /\ \E k \in 1..Len(wk[w].inbox) :
       /\ wk[w].inbox[k].type = "response"
       /\ wk[w].inbox[k].hasId /\ wk[w].inbox[k].id = id
\* the caller of the call `id` of worker w has been resolved or rejected
Settled(w, id) == w \in 1..Len(wk) /\ id \notin wk[w].pending

\* C18: every capability invocation made by sandboxed logic is eventually
\* settled: once the parent has posted the response for the request's
\* correlation id, the awaiting caller in the worker receives it.
C18_EventuallySettled ==
  \A w \in WorkerIds : \A id \in CorrelationIds :
    ResponsePosted(w, id) ~> Settled(w, id)

\* the requests the proxy of worker w has sent
Requests(w) == SelectSeq(wk[w].outbox, LAMBDA m : m.type = "request")
\* no two calls of a proxy were given the same id
UniqueIds ==
  \A w \in 1..Len(wk) :
    \A i, j \in 1..Len(Requests(w)) :
      Requests(w)[i].id = Requests(w)[j].id => i = j
\* the call made with correlation id `id` is still awaiting its response
AwaitsResponse(worker, id) ==
  id + 1 \in 1..Len(worker.calls) /\ worker.calls[id + 1] = Pending
\* the ids kept in `pending` are those of the calls still awaiting
PendingAreAwaiting ==
  \A w \in 1..Len(wk) :
    wk[w].pending = {id \in 0..Len(wk[w].calls) : AwaitsResponse(wk[w], id)}
\* a message that reaches the handler settles the awaiting call of its id and
\* no other; there being none, nothing changes
SettlesOwnCall(data) ==
  IF HasId(data) /\ AwaitsResponse(wk[1], data.id)
    THEN /\ wk'[1].calls[data.id + 1].state =
              (IF data.error # NoMessage THEN "rejected" ELSE "resolved")
         /\ Len(wk'[1].calls) = Len(wk[1].calls)
         /\ \A i \in 1..Len(wk[1].calls) :
              i # data.id + 1 => wk'[1].calls[i] = wk[1].calls[i]
    ELSE wk' = wk

----------------------------------------------------------------------------
(* The registry a capability call is resolved against *)

\* the parent takes a capability request of worker w in this step
Dispatching(w) ==
  /\ wk[w].outbox # <<>>
  /\ Head(wk[w].outbox).type = "request"
  /\ ParentReceive(w)
\* the response says the function was called exactly when the name leads to a
\* function in the registry given with the worker's workflow
AnsweredFromOwnRegistry(w) ==
  LET request == Head(wk[w].outbox)
      response == Last(wk'[w].inbox)
      own == workflows[OwnerOf(w)].protectedFunctions
  IN /\ response.type = "response" /\ response.hasId /\ response.id = request.id
     /\ response.hasResult <=> (Walk(own, Split(request.method)) = Fn)

\* C20: a capability call from a sandboxed node of workflow W is resolved
\* against the capability registry that was supplied to W at createWorkflow,
\* whichever workflows with sandboxed nodes were created before it on the
\* same engine.
C20_OwnRegistry ==
  [][\A w \in 1..Len(wk) : Dispatching(w) => AnsweredFromOwnRegistry(w)]_vars

----------------------------------------------------------------------------
(* The activation timeout *)

\* the timer of the activation the coordinator awaits has fired first
TimedOut ==
  /\ phase = "running" /\ stack # <<>> /\ Top.pc = "sandbox"
  /\ promises[Top.aid] = Rejected(TimeoutError)
\* the awaiting activation completes with the failure of the timeout, and the
\* worker of its workflow is the one it was
FailsWithTimeout ==
  (TimedOut /\ SandboxResume) =>
    /\ ret' = Return(FailureResult(<<"Sandbox execution timeout (10s)">>, Top.npath))
    /\ HasWorker(Top.wf) /\ workers' = workers
    /\ Len(wk') = Len(wk)

----------------------------------------------------------------------------
(* Teardown of workers *)

\* the workers of the registry have not been terminated
RegisteredAreLive ==
  \A n \in DOMAIN workers :
    workers[n] \in 1..Len(wk) /\ wk[workers[n]].terminated = 0
\* the worker that raises the error event is terminated and leaves the registry
ErrorTearsDown ==
  \A w \in 1..Len(wk) :
    WorkerError(w) =>
      /\ wk'[w].terminated = 1
      /\ w \notin RegisteredWorkers(workers')
      /\ OwnerOf(w) \notin DOMAIN workers'
\* an activation for a name without a worker is given a worker made for it
ProvisionsWorker ==
  \A n \in ManagerNames :
    (SandboxExecute(n) /\ ~HasWorker(n)) =>
      /\ Len(wk') = Len(wk) + 1
      /\ workers'[n] = Len(wk')
      /\ wk'[Len(wk')].terminated = 0
      /\ Last(wk'[Len(wk')].inbox).type = "execute"

\* C22: when a worker raises an error event, it is terminated and removed from
\* the registry, and the next sandboxed activation for that workflow name
\* provisions a new worker.
C22_ErrorReprovisions ==
  /\ []RegisteredAreLive
  /\ [][ErrorTearsDown /\ ProvisionsWorker]_vars
\* the worker of the workflow raised an error event and the next activation
\* was given a second worker
C22_Witness ==
  /\ Len(trace) > 2
  /\ trace[1] = ManagerEvent("execute", WF)
  /\ trace[2] = ManagerEvent("error", WF)
  /\ trace[3] = ManagerEvent("execute", WF)
  /\ Len(wk) > 1 /\ wk[1].terminated = 1 /\ workers[WF] = 2
  /\ wk[2].inbox # <<>>

\* C23: removeWorker(name) and cleanup() are idempotent: applying either a
\* second time, or applying removeWorker to a name that has no worker, leaves
\* the worker registry as it was after the first application and terminates
\* no worker a second time.
C23_TeardownIdempotent ==
  LET m == Manager(workers, wk) IN
  /\ \A n \in TeardownNames :
       /\ RemoveWorker(RemoveWorker(m, n), n) = RemoveWorker(m, n)
       /\ n \notin DOMAIN workers => RemoveWorker(m, n) = m
  /\ Cleanup(Cleanup(m)) = Cleanup(m)
  /\ \A w \in 1..Len(wk) : wk[w].terminated <= 1
\* removeWorker was called twice for a workflow that had a worker, then
\* cleanup on the emptied registry
C23_Witness ==
  /\ Len(trace) = 4
  /\ trace[1] = ManagerEvent("execute", WF)
  /\ trace[2] = ManagerEvent("removeWorker", WF)
  /\ trace[3] = ManagerEvent("removeWorker", WF)
  /\ trace[4] = ManagerEvent("cleanup", "")
  /\ wk[1].terminated = 1 /\ workers = <<>>

----------------------------------------------------------------------------
(* Concurrent calls of executeWorkflow *)

\* what a call on the workflow of GraphFork returns when it runs alone, from
\* the input it was given and the continuation calls its own start made
\* (`history` is the history of the call: empty for an unknown workflow)
AloneOutcome(history) ==
  IF history = <<>>
    THEN Return(BareFailure(WorkflowNotFoundMessage("nowhere")))
  ELSE IF Len(history) = 1
    THEN Return(SuccessResult(history[1].input, <<"start">>))
  ELSE IF history[2] = Invoked("a", P1, "resolve", <<"start">>)
    THEN Return(SuccessResult(P1, <<"start", "a", "r">>))
  ELSE Return(SuccessResult(Obj({<<"x", <<"v1">>>>, <<"message", <<"m1">>>>}),
                            <<"start", "r">>))
\* the call began with the logic of start, on an empty path
BeganAtStart(history) ==
  history # <<>> =>
    /\ history[1].ev = "invoke" /\ history[1].node = "start"
    /\ history[1].path = <<>>
\* the other caller's call is in flight, past its start node
OtherInFlight ==
  /\ parked.caller # 0 /\ parked.phase = "running"
  /\ Len(parked.stack) > 1 /\ Len(parked.trace) > 1

\* C24: two executeWorkflow calls running concurrently against the same graph
\* of non-sandboxed nodes share neither execution path nor recorded
\* continuation calls: for every interleaving, each call returns the Result it
\* would return if it ran alone.
C24_IndependentCalls ==
  workflows[WF] = Named(WF, GraphFork) =>
  /\ Done => (BeganAtStart(trace) /\ outcome = AloneOutcome(trace))
  /\ (parked.caller # 0 /\ parked.phase = "done") =>
       (BeganAtStart(parked.trace) /\ parked.outcome = AloneOutcome(parked.trace))
\* a call that fanned out has returned while the call of the other caller,
\* which went through a alone, is in flight
C24_Witness ==
  /\ workflows[WF] = Named(WF, GraphFork)
  /\ Done /\ Len(trace) > 2 /\ outcome = AloneOutcome(trace)
  /\ outcome.result.executionPath = <<"start", "r">>
  /\ OtherInFlight
  /\ parked.trace[2] = Invoked("a", P1, "resolve", <<"start">>)
  /\ Cardinality(runningExecutions) = 1

----------------------------------------------------------------------------
(* The running execution contexts *)

\* the executeWorkflow calls that have started on a registered workflow and
\* have not returned
InFlight ==
  (IF phase = "running" THEN {ExecutionId(caller, remaining + 1)} ELSE {})
    \cup (IF parked.caller # 0 /\ parked.phase = "running"
            THEN {ExecutionId(parked.caller, parked.remaining + 1)} ELSE {})

\* C30: the set of running execution contexts holds exactly one entry per
\* executeWorkflow call that has started on a registered workflow and not yet
\* returned: every call removes its own entry before returning, on the
\* success path and on every failure path, so the set is empty whenever no
\* execution is in flight.
C30_RunningExecutions ==
  /\ {e.id : e \in runningExecutions} = InFlight
  /\ Cardinality(runningExecutions) = Cardinality(InFlight)
  /\ \A e \in runningExecutions : e.workflowName \in DOMAIN workflows
\* a call has returned a failure while the call of the other caller is in
\* flight: the entry of the other call is the one left
C30_Witness ==
  /\ Done /\ ~outcome.result.success /\ trace # <<>>
  /\ parked.caller # 0 /\ parked.phase = "running" /\ Len(parked.stack) > 1
  /\ Cardinality(runningExecutions) = 1

----------------------------------------------------------------------------
(* Continuation calls made late *)

\* node logic makes a call on its continuation in this step
CallsContinuation ==
  \/ LogicStep /\ Head(Top.prog.steps).op = "next"
  \/ \E i \in 1..Len(late) : LateNext(i)
\* the call is recorded and nothing is started: no executeNode call begins
\* and no logic is invoked
OnlyRecorded ==
  /\ Len(stack') = Len(stack)
  /\ parked' = parked
  /\ trace' = trace

\* C25: a call on the continuation never starts its target immediately: every
\* call, whenever the node logic makes it, is only recorded, and targets are
\* activated by the coordinator after the calling node's activation has
\* completed.
C25_CallsOnlyRecorded ==
  [][CallsContinuation => OnlyRecorded]_vars

----------------------------------------------------------------------------
(* The logger of a workflow *)

\* the workflow was created with a logger callback
HasLogger(workflow) == "logger" \in DOMAIN workflow
\* the calls of the logger made so far, with their entries
LoggerCalls == {i \in Events : trace[i].ev = "log"}
\* the activations of nodes so far: logic invoked by the coordinator or
\* handed to the sandbox
Activations == {i \in Events : trace[i].ev = "delegate" \/ RanInCoordinator(trace[i])}
\* the entries logged for the activation: workflow name, node name and input
EntriesFor(i) ==
  {j \in LoggerCalls :
     /\ trace[j].workflowName = WF
     /\ trace[j].nodeName = trace[i].node
     /\ trace[j].input = trace[i].input}

\* C26: when a workflow is created with a logger callback, each node
\* activation, sandboxed or not, produces exactly one call of the logger with
\* an entry carrying the workflow name, the node name, the input and the
\* recorded continuation calls.
C26_OneLogEntry ==
  (Done /\ WF \in DOMAIN workflows /\ HasLogger(workflows[WF])) =>
    \A i \in Activations : Cardinality(EntriesFor(i)) = 1

----------------------------------------------------------------------------
(* C27 *)

\* the listeners of the server that hold a port
Listening ==
  {l \in 1..Len(server.listeners) : server.listeners[l].state \in {"listening", "closing"}}

\* C27: a WorkflowServer never has two listeners started: whatever the order
\* in which serve() calls, stop() calls and their callbacks run, at most one
\* http server made by serve() is listening at a time.
C27_SingleListener == Cardinality(Listening) <= 1

----------------------------------------------------------------------------
(* C28 *)

\* the scheduled triggers registered for a workflow: those whose task runs it
RegisteredFor(workflowName) ==
  {id \in DOMAIN triggers.scheduledJobs : triggers.scheduledJobs[id].workflow = workflowName}
RemovesExactly(workflowName) ==
  /\ GetScheduledJobs(triggers') = GetScheduledJobs(triggers) \ RegisteredFor(workflowName)
  /\ \A id \in GetScheduledJobs(triggers') :
        /\ triggers'.scheduledJobs[id] = triggers.scheduledJobs[id]
        /\ id \in DOMAIN triggers'.scheduler
  /\ \A id \in RegisteredFor(workflowName) : id \notin DOMAIN triggers'.scheduler

\* C28: unregisterWorkflowTriggers(W) removes exactly the scheduled triggers
\* that were registered for W, from scheduledJobs and from the scheduler, and
\* leaves those of every other workflow as they were, for every name W.
C28_RemovesExactly ==
  [][\A workflowName \in TriggerNames :
       Unregister(workflowName) => RemovesExactly(workflowName)]_vars

----------------------------------------------------------------------------
(* C29 *)

\* the execution awaited by the running task has failed
TickFailed ==
  \/ outcome.kind = "throw"
  \/ outcome.kind = "return" /\ ~outcome.result.success
\* the task's last notification is a triggerError for its own job
ReportedError(job) ==
  /\ Len(triggers'.events) = Len(triggers.events) + 1
  /\ triggers'.events[Len(triggers'.events)].event = "triggerError"
  /\ triggers'.events[Len(triggers'.events)].workflow = job.workflow
  /\ triggers'.events[Len(triggers'.events)].node = job.node.name

\* C29: when the workflow execution of a scheduled tick fails (its Result has
\* success = false, or executeWorkflow throws), the task emits a triggerError
\* notification for it, and the job stays with the scheduler for its next tick.
C29_FailureReported ==
  [][(TickEnd /\ TickFailed) =>
       /\ ReportedError(triggers.running[1])
       /\ triggers'.scheduler = triggers.scheduler]_vars

----------------------------------------------------------------------------
(* C31 *)

\* a stop() call resolves in this step
StopResolves ==
  /\ Len(server'.settled) = Len(server.settled) + 1
  /\ server'.settled[Len(server'.settled)] = StopSettled

\* C31: when a stop() call of the server resolves, no cron or interval trigger
\* registered through createWorkflow is scheduled any more, neither in
\* scheduledJobs nor with the scheduler, whether or not serve() was called.
C31_StopUnschedules ==
  [][StopResolves =>
       /\ GetScheduledJobs(triggers') = {}
       /\ DOMAIN triggers'.scheduler = {}]_vars

----------------------------------------------------------------------------
(* C32 *)

SentinelNames == {"SUCCESS", "ERROR"}
NoRepeat(path) == \A i, j \in 1..Len(path) : i # j => path[i] # path[j]
NoSentinelNode ==
  \A n \in DOMAIN workflows :
    \A i \in 1..Len(workflows[n].nodes) : workflows[n].nodes[i].name \notin SentinelNames
\* the executionPath argument of every executeNode call in progress
PathsPassedAreSpines ==
  \A k \in 1..Len(stack) :
    /\ NoRepeat(stack[k].path)
    /\ \A i \in 1..Len(stack[k].path) : stack[k].path[i] \notin SentinelNames
ResultPathIsSpine ==
  (outcome.kind = "return" /\ "executionPath" \in DOMAIN outcome.result) =>
    /\ NoRepeat(outcome.result.executionPath)
    /\ \A i \in 1..(Len(outcome.result.executionPath) - 1) :
          outcome.result.executionPath[i] \notin SentinelNames

\* C32: in a graph with no node named SUCCESS or ERROR, the execution path
\* passed to every executeNode call holds pairwise distinct node names and no
\* sentinel, and the path of a returned Result repeats no name and holds a
\* sentinel only as its last element.
C32_PathsAreSpines == NoSentinelNode => (PathsPassedAreSpines /\ ResultPathIsSpine)

----------------------------------------------------------------------------
(* C33 *)

\* the coordinator has chosen between the zero-call, single-call and fan-out
\* cases for the activation of this frame and has gone on to its targets
Chosen(f) == f.pc \in {"single", "branches", "targets", "awaitTarget"}
\* the logic of the activation has settled: in the coordinator it has no step
\* left; in the sandbox its execute message has been taken and its run ended
OwnLogicSettled(f) ==
  IF f.sandboxed
    THEN \A w \in 1..Len(wk) :
           /\ \A r \in 1..Len(wk[w].runs) : wk[w].runs[r].of # f.aid
           /\ \A m \in 1..Len(wk[w].inbox) :
                 (~IsResponseMessage(wk[w].inbox[m]) /\ wk[w].inbox[m].type = "execute")
                   => wk[w].inbox[m].of # f.aid
    ELSE f.prog.steps = <<>>
\* the first-hop branches have settled before a target they named is started
BranchesSettled(f) ==
  f.pc \in {"targets", "awaitTarget"} =>
    \A i \in 1..Len(f.branches) : f.branches[i].prog.steps = <<>>

\* C33: the logic of a continuation target is never started before the logic
\* of the node that named it has settled: whenever the coordinator has chosen
\* how to continue an activation, the logic of that activation has settled,
\* and the targets of a fan-out start only after every branch has settled.
C33_TargetsAfterSettle ==
  \A k \in 1..Len(stack) :
    Chosen(stack[k]) => (OwnLogicSettled(stack[k]) /\ BranchesSettled(stack[k]))

----------------------------------------------------------------------------
(* C34 *)

\* WorkflowServer.createWorkflow(name, definition) throws in the current state
ServerCreateThrows(name, definition) ==
  LET engine == CreateWorkflow(Engine(workflows, apiHandlers, NoRet), runtime,
                               name, definition)
  IN \/ engine.outcome.kind = "throw"
     \/ RegisterWorkflowTriggers(triggers, engine.outcome.result).thrown # NoMessage
\* executeWorkflow(name, ...) would report the workflow as not found
NotFoundAfterwards(name) == name \notin DOMAIN workflows'

\* C34: a createWorkflow call of the server that throws leaves the workflow
\* unregistered: if the name was not registered before the call, it is not
\* registered after it, so executeWorkflow reports it as not found.
C34_ThrowLeavesUnregistered ==
  [][\A name \in TriggerNames, definition \in TriggerGraphs :
       (/\ ServerCreateWorkflow(name, definition)
        /\ ServerCreateThrows(name, definition)
        /\ name \notin DOMAIN workflows)
         => NotFoundAfterwards(name)]_vars

----------------------------------------------------------------------------
(* C35 *)

Keys(d) == IF IsObject(d) THEN {p[1] : p \in d.f} ELSE {}
\* the contributions of different branches to one target have disjoint keys
DisjointAcrossBranches(calls) ==
  \A i, j \in 1..Len(calls) :
    calls[i].fromBranch # calls[j].fromBranch => Keys(calls[i].data) \cap Keys(calls[j].data) = {}
\* the orders in which the same contributions can be intercepted: a branch
\* makes its own calls in the order of its logic
Interleavings(calls) ==
  {pi \in Permutations(1..Len(calls)) :
     \A i, j \in 1..Len(calls) :
       (i < j /\ calls[pi[i]].fromBranch = calls[pi[j]].fromBranch) => pi[i] < pi[j]}
Reordered(calls, pi) == [i \in 1..Len(calls) |-> calls[pi[i]]]
\* the fan-outs that have reached the loop over their grouped targets
FanIns == {k \in 1..Len(stack) : stack[k].pc \in {"targets", "awaitTarget"}}

\* C35: when the payloads that different branches contribute to a shared
\* fan-in target have pairwise disjoint keys, the merged input delivered to
\* the target is the same for every order in which the branches made their
\* calls.
C35_OrderIndependent ==
  \A k \in FanIns :
    \A g \in 1..Len(stack[k].grouped) :
      LET calls == stack[k].grouped[g].calls
      IN DisjointAcrossBranches(calls) =>
           \A pi \in Interleavings(calls) :
             MergedData(Reordered(calls, pi)) = MergedData(calls)
\* two branches have contributed different keys to one target, the branch
\* named later by the fan-out node having made its call first
C35_Witness ==
  \E k \in FanIns :
    \E g \in 1..Len(stack[k].grouped) :
      LET calls == stack[k].grouped[g].calls
      IN /\ Len(calls) = 2
         /\ DisjointAcrossBranches(calls)
         /\ calls[1].fromBranch = stack[k].nextCalls[2].targetNode
         /\ calls[2].fromBranch = stack[k].nextCalls[1].targetNode
         /\ calls[1].fromBranch # calls[2].fromBranch
         /\ Keys(calls[1].data) # {} /\ Keys(calls[2].data) # {}
         /\ stack[k].pc = "awaitTarget"
         /\ stack[k + 1].input = MergedData(calls)

----------------------------------------------------------------------------
(* C36 *)

\* the parent takes, in this step, a result of worker w that was produced by
\* the logic of an activation which has timed out
LateResultArrives(w) ==
  /\ wk[w].outbox # <<>>
  /\ wk'[w].outbox = Tail(wk[w].outbox)
  /\ Head(wk[w].outbox).type = "result"
  /\ promises[Head(wk[w].outbox).result.of] = Rejected(TimeoutError)

\* C36: a result that the worker posts for an activation that has already
\* timed out is delivered to no other activation: the promises of all
\* activations are as they were.
C36_LateResultDropped ==
  [][\A w \in 1..Len(wk) : LateResultArrives(w) => promises' = promises]_vars

----------------------------------------------------------------------------
(* C37 *)

\* how often the notification e has been emitted
Count(e) == Cardinality({i \in 1..Len(emitted) : emitted[i] = e})
\* how often e occurs among the first k notifications
CountUpTo(e, k) == Cardinality({i \in 1..k : emitted[i] = e})
Notified == {emitted[i].node : i \in 1..Len(emitted)}

\* C37: when the execution has returned, every nodeStart notification has
\* been followed by exactly one nodeComplete or nodeError notification for the
\* same node: per node there are as many closing notifications as nodeStart
\* notifications, and at no point more closing ones than nodeStart ones.
C37_StartsAreClosed ==
  Done =>
    \A n \in Notified :
      /\ Count(NodeStart(n)) = Count(NodeComplete(n)) + Count(NodeError(n))
      /\ \A k \in 1..Len(emitted) :
           CountUpTo(NodeComplete(n), k) + CountUpTo(NodeError(n), k)
             <= CountUpTo(NodeStart(n), k)

----------------------------------------------------------------------------
(* C38 *)

\* the branches of the fan-out in progress that name no node of the graph
MissingBranches(f) == {i \in 1..Len(f.branches) : f.branches[i].missing}
FanOutWithMissing ==
  stack # <<>> /\ Top.pc = "branches" /\ MissingBranches(Top) # {}
FirstMissing(f) == CHOOSE i \in MissingBranches(f) : \A j \in MissingBranches(f) : i <= j
NotFoundResult(f, i) ==
  FailureResult(BranchNotFoundMessage(f.branches[i].name), f.npath)
\* the frame of a fan-out that has gone on to resolve targets
ResolvesTargets(f) == f.pc \in {"targets", "awaitTarget"}

----------------------------------------------------------------------------
(* C39 *)

\* the logic of the activation on top of the stack throws in this step, in
\* the coordinator, after it has recorded continuation calls
ThrowsAfterCalls ==
  /\ stack # <<>> /\ Top.pc = "logic"
  /\ Top.prog.end.thrown /\ Top.nextCalls # <<>>
  /\ LogicEnd
\* the same for run r of worker w, the logic of a sandboxed activation
ThrowsAfterCallsIn(w, r) ==
  /\ wk[w].runs[r].prog.end.thrown /\ wk[w].runs[r].nextCalls # <<>>
  /\ WorkerEnd(w, r)
\* the coordinator has continued activation a with continuation calls
ContinuedWithCalls(a) ==
  promises[a].state = "resolved" /\ promises[a].value.success
ThrownFailure(f, error) == FailureResult(MessageOf(error, CatchFallback(f)), f.npath)

\* C39: when a node's logic throws after having recorded continuation calls,
\* no recorded target is activated and the Result is the failure for the
\* thrown error: in the coordinator the activation returns that failure at
\* once; in the sandbox the worker posts a failure without calls, and the
\* activation is not continued with calls.
C39_ThrowDropsCalls ==
  [][/\ ThrowsAfterCalls =>
          /\ stack' = Pop
          /\ ret' = Return(ThrownFailure(Top, Top.prog.end.error))
     /\ \A w \in 1..Len(wk) : \A r \in 1..Len(wk[w].runs) :
          ThrowsAfterCallsIn(w, r) =>
            LET posted == wk'[w].outbox[Len(wk'[w].outbox)]
            IN /\ posted.type = "result"
               /\ ~posted.result.success
               /\ "nextCalls" \notin DOMAIN posted.result
               /\ ~ContinuedWithCalls(wk[w].runs[r].of)]_vars

----------------------------------------------------------------------------
(* C40 *)

\* no branch of the fan-out f has made a continuation call, and none has one
\* left to make
NoBranchCalls(f) ==
  /\ f.subsequent = <<>>
  /\ \A i \in 1..Len(f.branches) :
       \A s \in 1..Len(f.branches[i].prog.steps) : f.branches[i].prog.steps[s].op # "next"
\* the fan-out on top of the stack returns in this step
FanOutReturns ==
  /\ stack # <<>> /\ Top.pc \in {"branches", "targets"}
  /\ BranchesJoin \/ TargetStep
  /\ stack' = Pop
AllDone(branches) == \A i \in 1..Len(branches) : branches[i].status = "done"

====
